---- MODULE Spec2Model ----
(***************************************************************************)
(* pytest-orisa: the socket event dispatcher (event_dispatcher.py) and the *)
(* run orchestration of the UI (app.py), as state machines.                *)
(*                                                                         *)
(* Spec        : EventDispatcher dispatching: the accept loop, one handler *)
(*               thread per accepted connection, the UI thread calling     *)
(*               register_handler, the run worker calling get_event_data.  *)
(* FramingSpec : the same handler threads with reads of any size and peers *)
(*               that close or reset their connections.                    *)
(* StopSpec    : stop() against the accept loop and the handler threads.   *)
(* RunSpec     : OrisaApp.run_node and handle_process_result, one run.     *)
(* RerunSpec   : runs triggered while a run is active.                     *)
(* ReportSpec  : a run that ends while the plugin sends its REPORT events. *)
(* TargetSpec  : plugin.run_node, the command line of a run.               *)
(* BuildSpec   : plugin.build_pytest_tree.                                 *)
(* CodecSpec   : Event.serialize and Event.deserialize.                    *)
(* EventsSpec  : the dispatcher of the mounted app receiving the events of *)
(*               a test session.                                           *)
(* PluginSpec  : the hooks of plugin.py in the runner process, send_event. *)
(* WaitSpec    : wait_for_server.                                          *)
(* RuntestSpec : the hooks pytest calls for every test of a session.       *)
(* SelectSpec  : a run during which the user selects nodes of the tree.    *)
(* StopLiveSpec: StopSpec with every thread of the program taking its      *)
(*               steps.                                                    *)
(***************************************************************************)
EXTENDS Integers, Sequences, FiniteSets, TLC

\* ---------------------------------------------------------------- bounds
\* messages written over all connections together
MaxMsgs == 2
\* register_handler calls over the whole run
MaxRegs == 2
\* lines the runner process writes to its standard output
MaxOut == 2
\* lines the runner process writes to its standard error
MaxErr == 1
\* entries of the list of command line flags
MaxFlags == 2
\* items handed to build_pytest_tree
MaxItems == 3
\* the largest max_retries handed to wait_for_server
MaxRetries == 5
\* the largest retry_delay, in tenths of a second
MaxDelay == 2
\* tests of a session whose phases are reported
MaxTests == 2

\* ---------------------------------------------------------------- constants
\* client_socket.recv(1024)
RECV_SIZE == 1024
\* pytest.ExitCode
OK == 0
TESTS_FAILED == 1
INTERRUPTED == 2
INTERNAL_ERROR == 3
USAGE_ERROR == 4
NO_TESTS_COLLECTED == 5
\* the return code of a process ended by SIGTERM (elif returncode == -15)
TERMINATED == -15

\* the connections: two, so that two handler threads run side by side
Conns == {1, 2}
\* event types on the wire (the "type" member of the JSON object)
Types == {"REPORT", "TEST_OUTCOME"}
\* the values of the members of EventType
EventType == {"TESTS_COLLECTED", "TESTS_SCHEDULED", "TEST_OUTCOME", "REPORT"}
\* the event type TestsTree.on_mount registers its handler for
tests_collected == "tests_collected"
\* the keys of event_handlers and event_data: any string a message carries as
\* its type or register_handler is called with
Keys == EventType \cup {tests_collected}
\* payloads on the wire (the "data" member of the JSON object): every message
\* carries a payload of its own, named after its place among the messages sent
PayloadOf == <<"d1", "d2", "d3", "d4", "d5", "d6">>
Payloads == {PayloadOf[n] : n \in 1..MaxMsgs}
\* the value of dict.get for a missing key
None == "None"
\* the runs: two, so that a run can be triggered while another is active
Runs == {1, 2}
\* the nodes of the tests tree, by nodeid: a module and its two test functions
Nodes == {"n0", "n1", "n2"}
\* the label of a node that shows node.data["name"] and nothing else
Bare == "bare"
\* NodeType
NodeTypes == {"DIR", "MODULE", "CLASS", "FUNCTION"}
\* flags the user can enter
FlagNames == {"-x", "-v"}

VARIABLES
    \* EventDispatcher fields
    event_handlers,   \* event type -> handler (0: no entry); a handler is named by the number of the register_handler call that passed it
    event_data,       \* event type -> payload, None: no entry
    lock,             \* <<"free",0>> or the thread holding self.lock
    shutdown_flag,
    server_open,      \* the listening socket is not closed
    client_threads,   \* list of the threads appended by start()
    \* the sockets: what each peer wrote, how much of it recv has returned
    conn,             \* "unborn" | "pending" (in the listen backlog) | "accepted"
    stream,           \* bytes the peer wrote on the connection, in order
    rpos,             \* number of bytes of stream already returned by recv
    peer,             \* "open" | "closed" | "reset"
    nsent,            \* messages written so far, all connections
    \* start(): the accept loop
    acc_pc, acc_sock,
    \* handle_client threads, one per connection
    tstate,           \* "none" | "created" | "running" | "finished"
    pc,               \* position of the handler thread
    buffer,           \* the local text buffer
    event,            \* the locals event_type and data of the current dispatch
    handler,          \* the local handler of the current dispatch
    \* the UI thread: register_handler and stop
    reg_pc, reg_type, nregs,
    stop_pc, join_i,
    \* the run worker: get_event_data
    get_pc, get_type, got,
    \* history of the current dispatch of each connection
    beganWith,        \* the handler registered for the type when the dispatch began (0: none)
    delivered,        \* times the current message was handed to a handler
    reads,            \* recv calls whose bytes make up the buffer: 0, 1, or 2 for two and more
    \* OrisaApp: the run sessions, run n being the n-th run triggered
    run_pc,           \* position of the run's worker in run_node
    proc,             \* the run's process: "none" | "running" | "exited"
    returncode,       \* process.returncode, meaningful once proc = "exited"
    stdout, stderr,   \* lines the process wrote that were not read yet
    nout, nerr,       \* lines the process wrote so far
    is_cancelled,     \* run_worker.is_cancelled
    run_log,          \* run_result.run_log
    tab_color,        \* background of the tab of the run
    notification,     \* the notification the run's worker raised, "none" if none
    status_bar,       \* the TestSessionStatusBar of the run is displayed
    action_button,    \* the button of the run's status bar: "Cancel" | "Canceled" (disabled)
    report,           \* run_result.report
    fetched,          \* history: get_event_data(EventType.REPORT) was called for the run
    asked,            \* history: <<the log>> when the run was first asked to cancel while streaming, else <<>>
    \* OrisaApp: what the runs share
    run_button,       \* "loading" (disabled) | "ready"
    pressed,          \* RunButton.Pressed messages posted and not handled yet
    latest_active,    \* RunContent.latest_active: the tab pushed last, 0 if none
    current_run_worker, \* the worker that entered run_node last, 0 if none
    label,            \* TestsTree: the decoration of the label of every node
    \* plugin.run_node: the selected node, the flags and the argument list
    current_selected_node, pytest_cli_flags, args,
    \* plugin.build_pytest_tree: the items, how many are built in, the tree
    items, built, tree,
    \* Event: an event, its serialized text, what deserialize made of the text
    ev, wire, decoded,
    \* the runner process: its options, the hook it is in, send_event
    enable_orisa,     \* --enable-orisa
    collect_only,     \* --collect-only
    hook,             \* the hook of plugin.py that pytest calls next
    nfinished,        \* tests whose pytest_runtest_logfinish was called
    sending,          \* the event send_event was called with, None outside send_event
    send_pc,          \* position in send_event
    opened,           \* connections send_event opened
    closed,           \* connections send_event closed
    written,          \* the texts send_event wrote, in order
    exc,              \* the exceptions that left a hook, in order
    \* wait_for_server
    max_retries, retry_delay,
    attempt,          \* the loop variable
    wait_pc,          \* position in wait_for_server
    tried,            \* history: outcomes of the calls of open_connection, in order
    slept,            \* history: total time slept
    listening,        \* a server listens on (host, port)
    \* plugin.py: the module global REPORT and the runtest protocol of pytest
    REPORT,           \* the lists passed, failed, skipped, xfailed, a test item by its nodeid
    test_status,      \* nodeid -> the status of the TestItem of the nodeid that is in a list
    when,             \* the phase of the current test pytest reports next
    \* history of the runs
    triggered_node,   \* <<current_selected_node>> when on_run_triggered handled the run, else <<>>
    spawned_node,     \* <<the node>> plugin.run_node was called with for the run, else <<>>
    notified_node,    \* <<the node>> handle_process_result was called with for the run, else <<>>
    stored_before     \* <<event_data[REPORT]>> when the process of the run was spawned, else <<>>

dvars == <<event_handlers, event_data, lock, shutdown_flag, server_open, client_threads,
           conn, stream, rpos, peer, nsent, acc_pc, acc_sock, tstate, pc, buffer, event,
           handler, reg_pc, reg_type, nregs, stop_pc, join_i, get_pc, get_type,
           got, beganWith, delivered, reads>>

shared == <<event_handlers, event_data, lock, shutdown_flag, server_open, client_threads>>
net == <<conn, stream, rpos, peer, nsent>>
acc == <<acc_pc, acc_sock>>
thr == <<tstate, pc, buffer, event, handler>>
ui == <<reg_pc, reg_type, nregs, stop_pc, join_i>>
wrk == <<get_pc, get_type, got>>
hist == <<beganWith, delivered, reads>>

run == <<run_pc, proc, returncode, stdout, stderr, nout, nerr, is_cancelled, run_log,
         tab_color, notification, status_bar, action_button, report, fetched, asked,
         run_button, pressed, latest_active, current_run_worker, label>>
tgt == <<current_selected_node, pytest_cli_flags, args>>
bld == <<items, built, tree>>
cdc == <<ev, wire, decoded>>
plg == <<enable_orisa, collect_only, hook, nfinished, sending, send_pc, opened, closed, written, exc>>
wts == <<max_retries, retry_delay, attempt, wait_pc, tried, slept, listening>>
rpt == <<REPORT, test_status, when>>
sel == <<triggered_node, spawned_node, notified_node, stored_before>>
ext == <<cdc, plg, wts, rpt, sel>>
app == <<run, tgt, bld, ext>>

vars == <<dvars, app>>

\* ---------------------------------------------------------------- EventCodec
\* Event.serialize: one JSON object with the members type and data, as a
\* sequence of characters; no length prefix and no delimiter after it.
serialize(t, d) == <<"{", t, d, "}">>

\* the length of one encoded event
MsgLen == Len(serialize("REPORT", "d1"))

\* a decoder that stops at the end of the first object and ignores what follows
loads_ok_prefix(buf) ==
    /\ Len(buf) >= 4
    /\ buf[1] = "{"
    /\ buf[2] \in Keys
    /\ buf[3] \in Payloads
    /\ buf[4] = "}"

\* json.loads succeeds on the whole text or raises JSONDecodeError
loads_ok(buf) ==
    /\ Len(buf) = 4
    /\ buf[1] = "{"
    /\ buf[2] \in Keys
    /\ buf[3] \in Payloads
    /\ buf[4] = "}"

\* event.get("type"), event.get("data")
loads(buf) == [type |-> buf[2], data |-> buf[3]]

NoEvent == [type |-> None, data |-> None]

\* Python values: a kind and the value (digits for a number, the elements for
\* a list or a tuple, the (key, value) pairs in insertion order for a dict)
PyStr(x) == [k |-> "str", v |-> x]
PyInt(x) == [k |-> "int", v |-> x]
PyFloat(x) == [k |-> "float", v |-> x]
PyNone == [k |-> "None", v |-> ""]
PyList(x) == [k |-> "list", v |-> x]
PyTuple(x) == [k |-> "tuple", v |-> x]
PyDict(x) == [k |-> "dict", v |-> x]

\* the digit strings of the model that have a fraction part
Fractions == {"0.34"}

\* json.dumps of a value, as the JSON document it writes: a tuple is written
\* as an array like a list, the key of a dict member is written as a string
\* whatever it was
RECURSIVE dumps(_)
dumps(x) ==
    IF x.k = "str" THEN [k |-> "string", v |-> x.v]
    ELSE IF x.k \in {"int", "float"} THEN [k |-> "number", v |-> x.v]
    ELSE IF x.k = "None" THEN [k |-> "null", v |-> ""]
    ELSE IF x.k \in {"list", "tuple"}
    THEN [k |-> "array", v |-> [i \in 1..Len(x.v) |-> dumps(x.v[i])]]
    ELSE [k |-> "object", v |-> [i \in 1..Len(x.v) |-> <<x.v[i][1].v, dumps(x.v[i][2])>>]]

\* json.loads of a JSON document: an array becomes a list, an object a dict
\* with str keys, a number an int or, with a fraction part, a float
RECURSIVE json_loads(_)
json_loads(j) ==
    IF j.k = "string" THEN PyStr(j.v)
    ELSE IF j.k = "number" THEN (IF j.v \in Fractions THEN PyFloat(j.v) ELSE PyInt(j.v))
    ELSE IF j.k = "null" THEN PyNone
    ELSE IF j.k = "array" THEN PyList([i \in 1..Len(j.v) |-> json_loads(j.v[i])])
    ELSE PyDict([i \in 1..Len(j.v) |-> <<PyStr(j.v[i][1]), json_loads(j.v[i][2])>>])

\* Event.serialize: json.dumps({"type": self.type, "data": self.data}); the
\* type, a str and an Enum, is written as its value
Event_serialize(e) == serialize(e.type, dumps(e.data))

\* no event
Nothing == [type |-> "", data |-> PyNone]

\* how a call of deserialize ends: with an exception, or with the event
raises(e) == [error |-> e, event |-> Nothing]
returns(e) == [error |-> None, event |-> e]

\* deserialize was not called
Undecoded == raises("not called")

\* Event.deserialize(json_str):
\*   parsed = json.loads(json_str)      JSONDecodeError unless the text is one document
\*   parsed["type"], parsed["data"]     TypeError for an array
\*   EventType(parsed["type"])          ValueError unless it is the value of a member
deserialize_whole(text) ==
    IF Len(text) # 4 THEN raises("JSONDecodeError")
    ELSE IF text[1] = "[" /\ text[4] = "]" THEN raises("TypeError")
    ELSE IF ~(text[1] = "{" /\ text[4] = "}") THEN raises("JSONDecodeError")
    ELSE IF text[2] \notin EventType THEN raises("ValueError")
    ELSE returns([type |-> text[2],
                  data |-> PyDict(<< <<PyStr("type"), PyStr(text[2])>>,
                                     <<PyStr("data"), json_loads(text[3])>> >>)])

deserialize(text) ==
    IF Len(text) # 4 THEN raises("JSONDecodeError")
    ELSE IF text[1] = "[" /\ text[4] = "]" THEN raises("TypeError")
    ELSE IF ~(text[1] = "{" /\ text[4] = "}") THEN raises("JSONDecodeError")
    ELSE IF text[2] \notin EventType THEN raises("ValueError")
    ELSE returns([type |-> text[2], data |-> json_loads(text[3])])

\* payloads: the nodeids of TESTS_SCHEDULED, the records of TEST_OUTCOME, a
\* tree of TESTS_COLLECTED, and a dict and a list as Event.data admits them
PyPayloads ==
    { PyList(<<>>),
      PyList(<<PyStr("n1"), PyStr("n2")>>),
      PyDict(<< <<PyStr("nodeid"), PyStr("n1")>>, <<PyStr("status"), PyStr("passed")>>,
              <<PyStr("duration"), PyFloat("0.34")>> >>),
      PyDict(<< <<PyStr("nodeid"), PyStr("n2")>>, <<PyStr("status"), PyStr("failed")>>,
              <<PyStr("duration"), PyNone>> >>),
      PyDict(<< <<PyStr("data"),
                PyDict(<< <<PyStr("pkg"),
                          PyDict(<< <<PyStr("name"), PyStr("pkg")>>,
                                  <<PyStr("parent_name"), PyNone>>,
                                  <<PyStr("lineno"), PyInt("0")>>,
                                  <<PyStr("children"), PyList(<<>>)>> >>)>> >>)>>,
              <<PyStr("meta"), PyDict(<< <<PyStr("total"), PyInt("1")>> >>)>> >>),
      PyDict(<< <<PyInt("1"), PyStr("n1")>> >>),
      PyList(<< PyTuple(<<PyStr("test_a.py"), PyInt("3")>>) >>) }

\* the events that can be constructed
Events == {[type |-> t, data |-> d] : t \in EventType, d \in PyPayloads}

\* what can happen to a text between the sender and the reader: its end is
\* missing, a second text follows it, its type is a string of no member, or it
\* is an array
garbled(text, how) ==
    IF how = "cut" THEN SubSeq(text, 1, 3)
    ELSE IF how = "twice" THEN text \o text
    ELSE IF how = "retype" THEN [text EXCEPT ![2] = tests_collected]
    ELSE [text EXCEPT ![1] = "[", ![4] = "]"]

Free == <<"free", 0>>
Thr(c) == <<"handler", c>>
UI == <<"ui", 0>>
Worker == <<"worker", 0>>

\* ---------------------------------------------------------------- __init__
DispatcherInit ==
    /\ event_handlers = [t \in Keys |-> 0]
    /\ event_data = [t \in Keys |-> None]
    /\ lock = Free
    /\ shutdown_flag = FALSE
    /\ server_open = TRUE
    /\ client_threads = <<>>
    /\ conn = [c \in Conns |-> "unborn"]
    /\ stream = [c \in Conns |-> <<>>]
    /\ rpos = [c \in Conns |-> 0]
    /\ peer = [c \in Conns |-> "open"]
    /\ nsent = 0
    /\ acc_pc = "loop"
    /\ acc_sock = 0
    /\ tstate = [c \in Conns |-> "none"]
    /\ pc = [c \in Conns |-> "none"]
    /\ buffer = [c \in Conns |-> <<>>]
    /\ event = [c \in Conns |-> NoEvent]
    /\ handler = [c \in Conns |-> 0]
    /\ reg_pc = "idle"
    /\ reg_type = None
    /\ nregs = 0
    /\ stop_pc = "idle"
    /\ join_i = 0
    /\ get_pc = "idle"
    /\ get_type = None
    /\ got = None
    /\ beganWith = [c \in Conns |-> 0]
    /\ delivered = [c \in Conns |-> 0]
    /\ reads = [c \in Conns |-> 0]

\* OrisaApp.__init__ and compose, before any run
RunInit ==
    /\ run_pc = [s \in Runs |-> "idle"]
    /\ proc = [s \in Runs |-> "none"]
    /\ returncode = [s \in Runs |-> 0]
    /\ stdout = [s \in Runs |-> <<>>]
    /\ stderr = [s \in Runs |-> <<>>]
    /\ nout = [s \in Runs |-> 0]
    /\ nerr = [s \in Runs |-> 0]
    /\ is_cancelled = [s \in Runs |-> FALSE]
    /\ run_log = [s \in Runs |-> <<>>]
    /\ tab_color = [s \in Runs |-> "none"]
    /\ notification = [s \in Runs |-> "none"]
    /\ status_bar = [s \in Runs |-> TRUE]
    /\ action_button = [s \in Runs |-> "Cancel"]
    /\ report = [s \in Runs |-> None]
    /\ fetched = [s \in Runs |-> FALSE]
    /\ asked = [s \in Runs |-> <<>>]
    /\ run_button = "ready"
    /\ pressed = 0
    /\ latest_active = 0
    /\ current_run_worker = 0
    /\ label = [n \in Nodes |-> Bare]

\* OrisaApp.__init__: self.current_selected_node = {}, self.pytest_cli_flags = []
NoTarget == current_selected_node = <<>> /\ pytest_cli_flags = <<>> /\ args = <<>>

\* build_pytest_tree was not called
NoBuild == items = <<>> /\ built = 0 /\ tree = [data |-> <<>>, nodes |-> <<>>, total |-> 0]

\* no event was constructed
NoCodec == ev = Nothing /\ wire = <<>> /\ decoded = Undecoded

\* no runner process
NoPlugin ==
    /\ enable_orisa = FALSE /\ collect_only = FALSE /\ hook = "none" /\ nfinished = 0
    /\ sending = None /\ send_pc = "idle" /\ opened = 0 /\ closed = 0
    /\ written = <<>> /\ exc = <<>>

\* wait_for_server was not called
NoWait ==
    /\ max_retries = 0 /\ retry_delay = 0 /\ attempt = 0 /\ wait_pc = "none"
    /\ tried = <<>> /\ slept = 0 /\ listening = TRUE

\* REPORT = Report(): four empty lists, no test item; no test is reported
NoReport ==
    /\ REPORT = [passed |-> <<>>, failed |-> <<>>, skipped |-> <<>>, xfailed |-> <<>>]
    /\ test_status = <<>> /\ when = "setup"

\* no run was triggered
NoSelect ==
    /\ triggered_node = [s \in Runs |-> <<>>] /\ spawned_node = [s \in Runs |-> <<>>]
    /\ notified_node = [s \in Runs |-> <<>>] /\ stored_before = [s \in Runs |-> <<>>]

Init ==
    /\ DispatcherInit /\ RunInit /\ NoTarget /\ NoBuild /\ NoCodec /\ NoPlugin /\ NoWait
    /\ NoReport /\ NoSelect

\* ---------------------------------------------------------------- the peers
\* a peer connects: the connection waits in the listen backlog (connections
\* are numbered in the order in which they are made)
Connect(c) ==
    /\ conn[c] = "unborn"
    /\ \A b \in Conns : b < c => conn[b] # "unborn"
    /\ server_open
    /\ conn' = [conn EXCEPT ![c] = "pending"]
    /\ UNCHANGED <<shared, stream, rpos, peer, nsent, acc, thr, ui, wrk, hist, app>>

\* a peer writes one encoded event (sendall)
Send(c, t) ==
    /\ conn[c] # "unborn"
    /\ peer[c] = "open"
    /\ tstate[c] # "finished"
    /\ nsent < MaxMsgs
    /\ stream' = [stream EXCEPT ![c] = @ \o serialize(t, PayloadOf[nsent + 1])]
    /\ nsent' = nsent + 1
    /\ UNCHANGED <<shared, conn, rpos, peer, acc, thr, ui, wrk, hist, app>>

\* a peer closes its socket ("closed"), or the connection is reset ("reset")
PeerEnd(c, how) ==
    /\ conn[c] # "unborn"
    /\ peer[c] = "open"
    /\ tstate[c] # "finished"
    /\ peer' = [peer EXCEPT ![c] = how]
    /\ UNCHANGED <<shared, conn, stream, rpos, nsent, acc, thr, ui, wrk, hist, app>>

\* ---------------------------------------------------------------- start()
\* while not self.shutdown_flag.is_set():
start_loop ==
    /\ acc_pc = "loop"
    /\ acc_pc' = IF shutdown_flag THEN "done" ELSE "accept"
    /\ UNCHANGED <<shared, net, acc_sock, thr, ui, wrk, hist, app>>

\* client_socket, addr = self.server_socket.accept()
start_accept(c) ==
    /\ acc_pc = "accept"
    /\ server_open
    /\ conn[c] = "pending"
    /\ conn' = [conn EXCEPT ![c] = "accepted"]
    /\ acc_sock' = c
    /\ acc_pc' = "append"
    /\ UNCHANGED <<shared, stream, rpos, peer, nsent, thr, ui, wrk, hist, app>>

\* accept() on the closed listening socket raises OSError, which start() does
\* not catch (it catches socket.timeout only)
start_accept_closed ==
    /\ acc_pc = "accept"
    /\ ~server_open
    /\ acc_pc' = "raised"
    /\ UNCHANGED <<shared, net, acc_sock, thr, ui, wrk, hist, app>>

\* client_thread = threading.Thread(...); self.client_threads.append(client_thread)
start_append ==
    /\ acc_pc = "append"
    /\ client_threads' = Append(client_threads, acc_sock)
    /\ tstate' = [tstate EXCEPT ![acc_sock] = "created"]
    /\ acc_pc' = "start"
    /\ UNCHANGED <<event_handlers, event_data, lock, shutdown_flag, server_open,
                   net, acc_sock, pc, buffer, event, handler, ui, wrk, hist, app>>

\* client_thread.start()
start_thread ==
    /\ acc_pc = "start"
    /\ tstate' = [tstate EXCEPT ![acc_sock] = "running"]
    /\ pc' = [pc EXCEPT ![acc_sock] = "top"]
    /\ acc_pc' = "loop"
    /\ acc_sock' = 0
    /\ UNCHANGED <<shared, net, buffer, event, handler, ui, wrk, hist, app>>

\* ---------------------------------------------------------------- handle_client
\* every handler reading from the socket of the first connection
pending_shared(c) == SubSeq(stream[1], rpos[c] + 1, Len(stream[1]))

\* bytes written by the peer that recv has not returned yet
pending(c) == SubSeq(stream[c], rpos[c] + 1, Len(stream[c]))

Min(a, b) == IF a < b THEN a ELSE b

\* buffer = data.decode("utf-8")
accumulate_replace(c, chunk) == chunk

\* buffer += data.decode("utf-8")
accumulate(c, chunk) == buffer[c] \o chunk

\* while not self.shutdown_flag.is_set():
handle_client_top(c) ==
    /\ tstate[c] = "running"
    /\ pc[c] = "top"
    /\ pc' = [pc EXCEPT ![c] = IF shutdown_flag THEN "close" ELSE "recv"]
    /\ UNCHANGED <<shared, net, acc, tstate, buffer, event, handler, ui, wrk, hist, app>>

\* data = client_socket.recv(1024) returns between one and 1024 of the pending
\* bytes; the buffer grows by them and json.loads is tried on the whole buffer
handle_client_recv(c, k) ==
    /\ pc[c] = "recv"
    /\ peer[c] # "reset"
    /\ k \in 1..Min(Len(pending(c)), RECV_SIZE)
    /\ LET buf == accumulate(c, SubSeq(pending(c), 1, k)) IN
        /\ buffer' = [buffer EXCEPT ![c] = buf]
        /\ rpos' = [rpos EXCEPT ![c] = @ + k]
        /\ reads' = [reads EXCEPT ![c] = IF @ = 0 THEN 1 ELSE 2]
        /\ IF loads_ok(buf)
           THEN /\ event' = [event EXCEPT ![c] = loads(buf)]
                /\ pc' = [pc EXCEPT ![c] = "acquire"]
                /\ beganWith' = [beganWith EXCEPT ![c] = event_handlers[loads(buf).type]]
           ELSE \* except json.JSONDecodeError: break
                /\ pc' = [pc EXCEPT ![c] = "top"]
                /\ UNCHANGED <<event, beganWith>>
    /\ UNCHANGED <<shared, conn, stream, peer, nsent, acc, tstate, handler, ui, wrk, delivered, app>>

\* if not data: break   (the peer closed and everything it wrote was read)
handle_client_eof(c) ==
    /\ pc[c] = "recv"
    /\ peer[c] = "closed"
    /\ pending(c) = <<>>
    /\ pc' = [pc EXCEPT ![c] = "close"]
    /\ UNCHANGED <<shared, net, acc, tstate, buffer, event, handler, ui, wrk, hist, app>>

\* except ConnectionResetError: continue
handle_client_reset_continue(c) ==
    /\ pc[c] = "recv"
    /\ peer[c] = "reset"
    /\ pc' = [pc EXCEPT ![c] = "top"]
    /\ buffer' = [buffer EXCEPT ![c] = <<>>]
    /\ reads' = [reads EXCEPT ![c] = 0]
    /\ UNCHANGED <<shared, net, acc, tstate, event, handler, ui, wrk, beganWith, delivered, app>>

\* except ConnectionResetError: break
handle_client_reset(c) ==
    /\ pc[c] = "recv"
    /\ peer[c] = "reset"
    /\ pc' = [pc EXCEPT ![c] = "close"]
    /\ UNCHANGED <<shared, net, acc, tstate, buffer, event, handler, ui, wrk, hist, app>>

\* with self.lock:
handle_client_acquire(c) ==
    /\ pc[c] = "acquire"
    /\ lock = Free
    /\ lock' = Thr(c)
    /\ pc' = [pc EXCEPT ![c] = "lookup"]
    /\ UNCHANGED <<event_handlers, event_data, shutdown_flag, server_open, client_threads,
                   net, acc, tstate, buffer, event, handler, ui, wrk, hist, app>>

\*     handler = self.event_handlers.get(event_type)
handle_client_lookup(c) ==
    /\ pc[c] = "lookup"
    /\ handler' = [handler EXCEPT ![c] = event_handlers[event[c].type]]
    /\ lock' = Free
    /\ pc' = [pc EXCEPT ![c] = IF handler'[c] # 0 THEN "call" ELSE "check"]
    /\ UNCHANGED <<event_handlers, event_data, shutdown_flag, server_open, client_threads,
                   net, acc, tstate, buffer, event, ui, wrk, hist, app>>

\* if handler: handler(data)
handle_client_call(c) ==
    /\ pc[c] = "call"
    /\ delivered' = [delivered EXCEPT ![c] = @ + 1]
    /\ pc' = [pc EXCEPT ![c] = "check"]
    /\ UNCHANGED <<shared, net, acc, tstate, buffer, event, handler, ui, wrk, beganWith, reads, app>>

\* the locals of one dispatch are dead once the buffer is cleared
dispatch_done(c) ==
    /\ event' = [event EXCEPT ![c] = NoEvent]
    /\ handler' = [handler EXCEPT ![c] = 0]
    /\ beganWith' = [beganWith EXCEPT ![c] = 0]
    /\ delivered' = [delivered EXCEPT ![c] = 0]
    /\ reads' = [reads EXCEPT ![c] = 0]

\* event_type not in self.event_data
unhandled_in_data(t) == event_data[t] = None

\* event_type not in self.event_handlers
unhandled(t) == event_handlers[t] = 0

\* if event_type not in self.event_handlers:   (read outside the lock)
\* otherwise: buffer = ""; break
handle_client_check(c) ==
    /\ pc[c] = "check"
    /\ IF unhandled(event[c].type)
       THEN /\ pc' = [pc EXCEPT ![c] = "store"]
            /\ UNCHANGED <<buffer, event, handler, hist>>
       ELSE /\ pc' = [pc EXCEPT ![c] = "top"]
            /\ buffer' = [buffer EXCEPT ![c] = <<>>]
            /\ dispatch_done(c)
    /\ UNCHANGED <<shared, net, acc, tstate, ui, wrk, app>>

\* self.event_data[event_type] = data
retain(t, d) == [event_data EXCEPT ![t] = d]

\*     self.event_data[event_type] = data   (written outside the lock)
\* buffer = ""; break
handle_client_store(c) ==
    /\ pc[c] = "store"
    /\ event_data' = retain(event[c].type, event[c].data)
    /\ buffer' = [buffer EXCEPT ![c] = <<>>]
    /\ pc' = [pc EXCEPT ![c] = "top"]
    /\ dispatch_done(c)
    /\ UNCHANGED <<event_handlers, lock, shutdown_flag, server_open, client_threads,
                   net, acc, tstate, ui, wrk, app>>

\* client_socket.close(), and the thread ends
handle_client_close(c) ==
    /\ pc[c] = "close"
    /\ tstate' = [tstate EXCEPT ![c] = "finished"]
    /\ pc' = [pc EXCEPT ![c] = "done"]
    /\ buffer' = [buffer EXCEPT ![c] = <<>>]
    /\ reads' = [reads EXCEPT ![c] = 0]
    /\ UNCHANGED <<shared, net, acc, event, handler, ui, wrk, beganWith, delivered, app>>

\* ---------------------------------------------------------------- register_handler
\* self.event_handlers.setdefault(event_type, handler)
registered_setdefault(t, h) ==
    IF event_handlers[t] = 0 THEN [event_handlers EXCEPT ![t] = h] ELSE event_handlers

\* self.event_handlers[event_type] = handler
registered(t, h) == [event_handlers EXCEPT ![t] = h]

\* with self.lock:
register_handler_acquire(t) ==
    /\ reg_pc = "idle"
    /\ stop_pc = "idle"
    /\ nregs < MaxRegs
    /\ lock = Free
    /\ lock' = UI
    /\ reg_type' = t
    /\ reg_pc' = "write"
    /\ UNCHANGED <<event_handlers, event_data, shutdown_flag, server_open, client_threads,
                   net, acc, thr, nregs, stop_pc, join_i, wrk, hist, app>>

\*     self.event_handlers[event_type] = handler
register_handler_write ==
    /\ reg_pc = "write"
    /\ event_handlers' = registered(reg_type, nregs + 1)
    /\ nregs' = nregs + 1
    /\ lock' = Free
    /\ reg_pc' = "idle"
    /\ reg_type' = None
    /\ UNCHANGED <<event_data, shutdown_flag, server_open, client_threads,
                   net, acc, thr, stop_pc, join_i, wrk, hist, app>>

\* ---------------------------------------------------------------- get_event_data
\* with self.lock:
get_event_data_acquire(t) ==
    /\ get_pc = "idle"
    /\ lock = Free
    /\ lock' = Worker
    /\ get_type' = t
    /\ get_pc' = "read"
    /\ UNCHANGED <<event_handlers, event_data, shutdown_flag, server_open, client_threads,
                   net, acc, thr, ui, got, hist, app>>

\*     return self.event_data.get(event_type, None)
get_event_data_read ==
    /\ get_pc = "read"
    /\ got' = event_data[get_type]
    /\ lock' = Free
    /\ get_pc' = "idle"
    /\ get_type' = None
    /\ UNCHANGED <<event_handlers, event_data, shutdown_flag, server_open, client_threads,
                   net, acc, thr, ui, hist, app>>

\* ---------------------------------------------------------------- stop()
\* self.shutdown_flag.set()
stop_set ==
    /\ stop_pc = "idle"
    /\ reg_pc = "idle"
    /\ shutdown_flag' = TRUE
    /\ stop_pc' = "close"
    /\ UNCHANGED <<event_handlers, event_data, lock, server_open, client_threads,
                   net, acc, thr, reg_pc, reg_type, nregs, join_i, wrk, hist, app>>

\* self.server_socket.close()
stop_close ==
    /\ stop_pc = "close"
    /\ server_open' = FALSE
    /\ join_i' = 1
    /\ stop_pc' = "join"
    /\ UNCHANGED <<event_handlers, event_data, lock, shutdown_flag, client_threads,
                   net, acc, thr, reg_pc, reg_type, nregs, wrk, hist, app>>

\* for thread in self.client_threads: thread.join()
\* The list iterator looks at the list's current length at every step, so a
\* thread appended meanwhile is joined too; join() of a thread that has not
\* been started raises RuntimeError; join() of a running thread blocks.
stop_join ==
    /\ stop_pc = "join"
    /\ IF join_i > Len(client_threads)
       THEN /\ stop_pc' = "returned"
            /\ UNCHANGED join_i
       ELSE LET t == client_threads[join_i] IN
            /\ tstate[t] # "running"
            /\ IF tstate[t] = "created"
               THEN stop_pc' = "raised" /\ UNCHANGED join_i
               ELSE stop_pc' = "join" /\ join_i' = join_i + 1
    /\ UNCHANGED <<shared, net, acc, thr, reg_pc, reg_type, nregs, wrk, hist, app>>

\* ---------------------------------------------------------------- TreeLabelUpdater
\* the elements of a list
Range(f) == {f[i] : i \in DOMAIN f}

\* the reports the plugin sends as the data of its REPORT events, the test
\* items of every list by their nodeid
NoTests == [passed |-> <<>>, failed |-> <<>>, skipped |-> <<>>, xfailed |-> <<>>]

ReportOf ==
    [d \in Range(PayloadOf) |->
        IF d = "d1" THEN [NoTests EXCEPT !.passed = <<"n1">>]
        ELSE IF d = "d2" THEN [NoTests EXCEPT !.passed = <<"n1">>, !.failed = <<"n2">>]
        ELSE IF d = "d3" THEN [NoTests EXCEPT !.passed = <<"n1">>, !.skipped = <<"n1">>]
        ELSE NoTests]

\* for outcome in ["passed", "failed", "skipped", "xfailed"]
Outcomes == <<"passed", "failed", "skipped", "xfailed">>

\* extract_results_from_report: results[test.get("nodeid")] = outcome, list
\* after list, so that the last list a nodeid is in decides
extract_results_from_report(r) ==
    LET Last(n) == CHOOSE k \in 1..Len(Outcomes) :
                      /\ n \in Range(r[Outcomes[k]])
                      /\ \A m \in (k + 1)..Len(Outcomes) : n \notin Range(r[Outcomes[m]])
    IN [n \in UNION {Range(r[Outcomes[k]]) : k \in 1..Len(Outcomes)} |->
            Outcomes[Last(n)]]

\* the nodeids a TESTS_SCHEDULED event carries as its data, and the record a
\* TEST_OUTCOME event carries, by the payload of the message
ScheduledOf == [d \in Range(PayloadOf) |-> IF d = "d1" THEN <<"n0">> ELSE <<"n1">>]

OutcomeOf ==
    [d \in Range(PayloadOf) |->
        [nodeid |-> "n1", status |-> IF d = "d1" THEN "passed" ELSE "failed"]]

\* node.children of the nodes of the tests tree
ChildrenOf == [n \in Nodes |-> IF n = "n0" THEN {"n1", "n2"} ELSE {}]

\* the status update_node is called with in __exit__
Pending == "yellow pending"

\* get_status_icon: icons.get(outcome, "")
get_status_icon(outcome) ==
    IF outcome = "passed" THEN "green"
    ELSE IF outcome = "failed" THEN "red"
    ELSE IF outcome = "skipped" THEN "yellow"
    ELSE ""

\* ---------------------------------------------------------------- the runner process
\* the process of run s writes a line to its standard output
proc_stdout(s) ==
    /\ proc[s] = "running"
    /\ nout[s] < MaxOut
    /\ stdout' = [stdout EXCEPT ![s] = Append(@, <<"out", nout[s] + 1>>)]
    /\ nout' = [nout EXCEPT ![s] = @ + 1]
    /\ UNCHANGED <<dvars, tgt, bld, ext, run_pc, proc, returncode, stderr, nerr, is_cancelled,
                   run_log, tab_color, notification, status_bar, action_button, report,
                   fetched, asked, run_button, pressed, latest_active, current_run_worker, label>>

\* the process of run s writes a line to its standard error
proc_stderr(s) ==
    /\ proc[s] = "running"
    /\ nerr[s] < MaxErr
    /\ stderr' = [stderr EXCEPT ![s] = Append(@, <<"err", nerr[s] + 1>>)]
    /\ nerr' = [nerr EXCEPT ![s] = @ + 1]
    /\ UNCHANGED <<dvars, tgt, bld, ext, run_pc, proc, returncode, stdout, nout, is_cancelled,
                   run_log, tab_color, notification, status_bar, action_button, report,
                   fetched, asked, run_button, pressed, latest_active, current_run_worker, label>>

\* the process of run s ends by itself with an exit code
proc_exit(s, rc) ==
    /\ proc[s] = "running"
    /\ proc' = [proc EXCEPT ![s] = "exited"]
    /\ returncode' = [returncode EXCEPT ![s] = rc]
    /\ UNCHANGED <<dvars, tgt, bld, ext, run_pc, stdout, stderr, nout, nerr, is_cancelled,
                   run_log, tab_color, notification, status_bar, action_button, report,
                   fetched, asked, run_button, pressed, latest_active, current_run_worker, label>>

\* ---------------------------------------------------------------- OrisaApp
\* the four lines written by run_log.write_lines on cancellation
Banner == << <<"banner", 1>>, <<"banner", 2>>, <<"banner", 3>>, <<"banner", 4>> >>

\* the positions of run_node at which the worker thread is alive
Working == {"spawn", "stream", "wait", "reset", "result"}

\* RunButton.on_click, the click that opens run n: the button is disabled and
\* Pressed is posted; a disabled button gets no click
on_click(n) ==
    /\ run_button = "ready"
    /\ n = latest_active + pressed + 1
    /\ run_button' = "loading"
    /\ pressed' = pressed + 1
    /\ UNCHANGED <<dvars, tgt, bld, ext, run_pc, proc, returncode, stdout, stderr, nout, nerr,
                   is_cancelled, run_log, tab_color, notification, status_bar,
                   action_button, report, fetched, asked, latest_active, current_run_worker,
                   label>>

\* Button.press, which RunButton inherits and the enter key of a focused button
\* reaches: Pressed is posted and on_click does not run, the button stays enabled
press(n) ==
    /\ run_button = "ready"
    /\ n = latest_active + pressed + 1
    /\ pressed' = pressed + 1
    /\ UNCHANGED <<dvars, tgt, bld, ext, run_pc, proc, returncode, stdout, stderr, nout, nerr,
                   is_cancelled, run_log, tab_color, notification, status_bar,
                   action_button, report, fetched, asked, run_button, latest_active,
                   current_run_worker, label>>

\* history: a run that a step asks to cancel while it streams is remembered
\* with the log it has then; c is is_cancelled after the step
asked_by(c) ==
    [s \in Runs |->
        IF c[s] /\ ~is_cancelled[s] /\ run_pc[s] = "stream" /\ asked[s] = <<>>
        THEN <<run_log[s]>>
        ELSE asked[s]]

\* if self.current_run_worker: self.current_run_worker.cancel()
cancel(w) == IF w # 0 THEN [is_cancelled EXCEPT ![w] = TRUE] ELSE is_cancelled

\* run_worker(..., exclusive=True, thread=True): the workers that are alive are
\* asked to cancel, none is waited for
exclusive == [s \in Runs |-> is_cancelled[s] \/ run_pc[s] \in Working]

\* on_run_triggered: the new pane gets the active tab (push_new_pane), the
\* worker of the run is started
on_run_triggered ==
    /\ pressed > 0
    /\ pressed' = pressed - 1
    /\ LET n == latest_active + 1 IN
        /\ latest_active' = n
        /\ tab_color' = [tab_color EXCEPT ![n] = "ansi_bright_yellow"]
        /\ is_cancelled' = exclusive
        /\ asked' = asked_by(exclusive)
        /\ run_pc' = [run_pc EXCEPT ![n] = "spawn"]
        /\ triggered_node' = [triggered_node EXCEPT ![n] = <<current_selected_node>>]
    /\ UNCHANGED <<dvars, tgt, bld, cdc, plg, wts, rpt, spawned_node, notified_node,
                   stored_before, proc, returncode, stdout, stderr, nout, nerr, run_log,
                   notification, status_bar, action_button, report, fetched, run_button,
                   current_run_worker, label>>

\* the head of run_node: self.current_run_worker = run_worker, then
\* run_node(node=self.current_selected_node, ...) and its subprocess.Popen,
\* which returns the process or raises (the worker ends with the exception,
\* nothing of run_node after it is executed)
run_node_spawn(s, ok) ==
    /\ run_pc[s] = "spawn"
    /\ current_run_worker' = s
    /\ spawned_node' = [spawned_node EXCEPT ![s] = <<current_selected_node>>]
    /\ stored_before' = [stored_before EXCEPT ![s] = <<event_data["REPORT"]>>]
    /\ IF ok
       THEN /\ proc' = [proc EXCEPT ![s] = "running"]
            /\ run_pc' = [run_pc EXCEPT ![s] = "stream"]
       ELSE /\ run_pc' = [run_pc EXCEPT ![s] = "raised"]
            /\ UNCHANGED proc
    /\ UNCHANGED <<dvars, tgt, bld, cdc, plg, wts, rpt, triggered_node, notified_node,
                   returncode, stdout, stderr, nout, nerr, is_cancelled,
                   run_log, tab_color, notification, status_bar, action_button, report,
                   fetched, asked, run_button, pressed, latest_active, label>>

\* TestSessionStatusBar.handle_button_press on the Cancel button of run b while
\* test_session_is_running, and handle_cancel_test_run:
\* if self.current_run_worker: self.current_run_worker.cancel()
handle_cancel_test_run(b) ==
    /\ run_pc[b] # "idle"
    /\ status_bar[b]
    /\ action_button[b] = "Cancel"
    /\ report[b] = None
    /\ action_button' = [action_button EXCEPT ![b] = "Canceled"]
    /\ is_cancelled' = cancel(current_run_worker)
    /\ asked' = asked_by(cancel(current_run_worker))
    /\ UNCHANGED <<dvars, tgt, bld, ext, run_pc, proc, returncode, stdout, stderr, nout, nerr,
                   run_log, tab_color, notification, status_bar, report, fetched,
                   run_button, pressed, latest_active, current_run_worker, label>>

\* for line in iter(process.stdout.readline, ""):
\*     if run_worker.is_cancelled: process.terminate(); write_lines(banner); break
\*     run_result.run_log.write_line(line)
run_node_readline(s) ==
    /\ run_pc[s] = "stream"
    /\ stdout[s] # <<>>
    /\ IF is_cancelled[s]
       THEN /\ proc' = [proc EXCEPT ![s] = "exited"]
            /\ returncode' = [returncode EXCEPT
                                ![s] = IF proc[s] = "running" THEN TERMINATED ELSE @]
            /\ run_log' = [run_log EXCEPT ![s] = @ \o Banner]
            /\ stdout' = [stdout EXCEPT ![s] = <<>>]
            /\ run_pc' = [run_pc EXCEPT ![s] = "wait"]
       ELSE /\ run_log' = [run_log EXCEPT ![s] = Append(@, Head(stdout[s]))]
            /\ stdout' = [stdout EXCEPT ![s] = Tail(@)]
            /\ UNCHANGED <<proc, returncode, run_pc>>
    /\ UNCHANGED <<dvars, tgt, bld, ext, stderr, nout, nerr, is_cancelled, tab_color,
                   notification, status_bar, action_button, report, fetched, asked, run_button,
                   pressed, latest_active, current_run_worker, label>>

\* readline returns "" once the process has ended and every line was read
run_node_eof(s) ==
    /\ run_pc[s] = "stream"
    /\ stdout[s] = <<>>
    /\ proc[s] = "exited"
    /\ run_pc' = [run_pc EXCEPT ![s] = "wait"]
    /\ UNCHANGED <<dvars, tgt, bld, ext, proc, returncode, stdout, stderr, nout, nerr,
                   is_cancelled, run_log, tab_color, notification, status_bar,
                   action_button, report, fetched, asked, run_button, pressed, latest_active,
                   current_run_worker, label>>

\* the lines appended after process.wait():
\* if process.returncode != ExitCode.OK and process.stderr: every line of stderr
drained_always(s, rc) == stderr[s]

drained(s, rc) == IF rc # OK THEN stderr[s] ELSE <<>>

\* process.wait() and the reading of standard error
run_node_wait(s) ==
    /\ run_pc[s] = "wait"
    /\ proc[s] = "exited"
    /\ run_log' = [run_log EXCEPT ![s] = @ \o drained(s, returncode[s])]
    /\ stderr' = [stderr EXCEPT ![s] = IF returncode[s] # OK THEN <<>> ELSE @]
    /\ run_pc' = [run_pc EXCEPT ![s] = "reset"]
    /\ UNCHANGED <<dvars, tgt, bld, ext, proc, returncode, stdout, nout, nerr, is_cancelled,
                   tab_color, notification, status_bar, action_button, report, fetched, asked,
                   run_button, pressed, latest_active, current_run_worker, label>>

\* run_button.reset()
run_node_reset(s) ==
    /\ run_pc[s] = "reset"
    /\ run_button' = "ready"
    /\ run_pc' = [run_pc EXCEPT ![s] = "result"]
    /\ UNCHANGED <<dvars, tgt, bld, ext, proc, returncode, stdout, stderr, nout, nerr,
                   is_cancelled, run_log, tab_color, notification, status_bar,
                   action_button, report, fetched, asked, pressed, latest_active,
                   current_run_worker, label>>

\* TestsTree.reset_tree_labels: every node shows its bare name
reset_tree_labels == [n \in Nodes |-> Bare]

\* what a handler of the result leaves as it is
Kept ==
    [tab_color |-> tab_color, notification |-> notification, status_bar |-> status_bar,
     report |-> report, fetched |-> fetched, label |-> label]

\* handle_error: the tab that is active last turns grey (watch_tab_color), the
\* labels are reset, the last status bar is hidden
handle_error(s) ==
    [Kept EXCEPT !.tab_color = [tab_color EXCEPT ![latest_active] = "darkgrey"],
                 !.label = reset_tree_labels,
                 !.status_bar = [status_bar EXCEPT ![latest_active] = FALSE]]

\* handle_cancelled_run: grey tab, labels reset, notify("Run cancelled")
handle_cancelled_run(s) ==
    [Kept EXCEPT !.tab_color = [tab_color EXCEPT ![latest_active] = "darkgrey"],
                 !.label = reset_tree_labels,
                 !.notification = [notification EXCEPT ![s] = "Run cancelled"]]

\* handle_test_result: run_result.report = get_event_data(EventType.REPORT), the
\* tab turns cyan or crimson, notify(PASSED or FAILED)
handle_test_result(s, rc) ==
    [Kept EXCEPT !.report = [report EXCEPT ![s] = event_data["REPORT"]],
                 !.fetched = [fetched EXCEPT ![s] = TRUE],
                 !.tab_color = [tab_color EXCEPT
                                  ![latest_active] = IF rc = OK THEN "cyan" ELSE "crimson"],
                 !.notification = [notification EXCEPT
                                     ![s] = IF rc = OK THEN "PASSED" ELSE "FAILED"]]

\* handle_process_result: what the tabs, notifications, status bars, reports
\* and labels become for a return code
\*   USAGE_ERROR, NO_TESTS_COLLECTED -> handle_error
\*   -15                             -> handle_cancelled_run
\*   OK, TESTS_FAILED                -> handle_test_result
\*   any other code                  -> nothing
handle_process_result(s, rc) ==
    IF rc = USAGE_ERROR \/ rc = NO_TESTS_COLLECTED THEN handle_error(s)
    ELSE IF rc = TERMINATED THEN handle_cancelled_run(s)
    ELSE IF rc \in {OK, TESTS_FAILED} THEN handle_test_result(s, rc)
    ELSE Kept

\* self.handle_process_result(process.returncode, run_result,
\*                            self.current_selected_node)
run_node_result(s) ==
    /\ run_pc[s] = "result"
    /\ notified_node' = [notified_node EXCEPT ![s] = <<current_selected_node>>]
    /\ LET r == handle_process_result(s, returncode[s]) IN
        /\ tab_color' = r.tab_color
        /\ notification' = r.notification
        /\ status_bar' = r.status_bar
        /\ report' = r.report
        /\ fetched' = r.fetched
        /\ label' = r.label
    /\ run_pc' = [run_pc EXCEPT ![s] = "done"]
    /\ UNCHANGED <<dvars, tgt, bld, cdc, plg, wts, rpt, triggered_node, spawned_node,
                   stored_before, proc, returncode, stdout, stderr, nout, nerr,
                   is_cancelled, run_log, action_button, asked, run_button, pressed,
                   latest_active, current_run_worker>>

\* on_node_select: if node_data is not None and
\* self.current_selected_node != node_data: self.current_selected_node = node_data
on_node_select(node) ==
    /\ current_selected_node' = node
    /\ UNCHANGED <<dvars, run, bld, ext, pytest_cli_flags, args>>

\* ---------------------------------------------------------------- plugin.run_node
\* the nodes that can be selected: create_node_data gives every node its
\* type and the type of its parent (None for a root)
SelectableNodes ==
    {[name |-> "name", path |-> "path", type |-> t, parent_type |-> p,
      parent_name |-> "parent"] : t \in NodeTypes, p \in NodeTypes \cup {None}}

\* the flag lists: PytestCliFlagsModal.save_flags stores list(set of
\* (flag, is_active)), so no pair occurs twice
FlagLists ==
    {f \in UNION {[1..n -> FlagNames \X BOOLEAN] : n \in 0..MaxFlags} :
        \A i, j \in 1..Len(f) : f[i] = f[j] => i = j}

\* the path argument of pytest
\*   FUNCTION under a CLASS  -> path::parent_name::name
\*   CLASS, other FUNCTION   -> path::name
\*   else                    -> path
target_never_parent(node) ==
    IF node.type \in {"CLASS", "FUNCTION"}
    THEN node.path \o "::" \o node.name
    ELSE node.path

target(node) ==
    IF node.type = "FUNCTION" /\ node.parent_type = "CLASS"
    THEN node.path \o "::" \o node.parent_name \o "::" \o node.name
    ELSE IF node.type \in {"CLASS", "FUNCTION"}
    THEN node.path \o "::" \o node.name
    ELSE node.path

\* for flag, is_active in pytest_cli_flags: if is_active: args.append(flag)
RECURSIVE active_flags(_)
active_flags(flags) ==
    IF flags = <<>> THEN <<>>
    ELSE (IF Head(flags)[2] THEN <<Head(flags)[1]>> ELSE <<>>) \o active_flags(Tail(flags))

\* the command line of subprocess.Popen(["pytest", *args], ...)
run_node(node, flags) == <<"pytest", target(node), "--enable-orisa">> \o active_flags(flags)

\* the app with a node selected and the flags set, before the run
TargetInit ==
    /\ DispatcherInit /\ RunInit /\ NoBuild /\ NoCodec /\ NoPlugin /\ NoWait
    /\ NoReport /\ NoSelect
    /\ current_selected_node \in SelectableNodes
    /\ pytest_cli_flags \in FlagLists
    /\ args = <<>>

\* run_node(node=self.current_selected_node, pytest_cli_flags=pytest_cli_flags)
Popen ==
    /\ args = <<>>
    /\ args' = run_node(current_selected_node, pytest_cli_flags)
    /\ UNCHANGED <<dvars, run, bld, ext, current_selected_node, pytest_cli_flags>>

\* ---------------------------------------------------------------- plugin.build_pytest_tree
\* type(node).__name__.upper() of the collectors and items of the chains
TypeOf ==
    ("pkg" :> "DIR") @@ ("lib" :> "DIR") @@ ("test_a.py" :> "MODULE") @@
    ("test_b.py" :> "MODULE") @@ ("TestX" :> "CLASS") @@ ("test_one" :> "FUNCTION") @@
    ("test_two" :> "FUNCTION")

\* item.listchain()[1:] of the items that can be collected, as node names
Chains ==
    { <<>>,
      <<"pkg", "test_a.py", "TestX", "test_one">>,
      <<"pkg", "test_a.py", "TestX", "test_two">>,
      <<"pkg", "test_a.py", "test_one">>,
      <<"pkg", "test_b.py", "test_one">>,
      <<"lib", "test_a.py", "test_one">>,
      <<"lib">> }

\* the item lists
ItemLists == UNION {[1..n -> Chains] : n \in 0..MaxItems}

\* tree = {"data": {}, "meta": {"total": len(items)}}: data is the dict of the
\* roots in the order of their insertion; the nodes are kept in nodes, a node
\* is named by its place there and children lists those names
EmptyTree(its) == [data |-> <<>>, nodes |-> <<>>, total |-> Len(its)]

\* create_node_data: nodeid is node.nodeid, the chain down to the node
create_node_data_orphan(chain, depth, parent_type, parent_name) ==
    [name |-> chain[depth], type |-> TypeOf[chain[depth]], parent_type |-> None,
     parent_name |-> None, nodeid |-> SubSeq(chain, 1, depth), children |-> <<>>]

create_node_data(chain, depth, parent_type, parent_name) ==
    [name |-> chain[depth], type |-> TypeOf[chain[depth]], parent_type |-> parent_type,
     parent_name |-> parent_name, nodeid |-> SubSeq(chain, 1, depth), children |-> <<>>]

\* next((child for child in tree["children"] if child["name"] == name), None),
\* and root_name in tree["data"]: the first of kids with the name, 0 for None
existing_node_by_type(t, kids, name) ==
    IF \E i \in 1..Len(kids) : t.nodes[kids[i]].type = TypeOf[name]
    THEN kids[CHOOSE i \in 1..Len(kids) :
                /\ t.nodes[kids[i]].type = TypeOf[name]
                /\ \A j \in 1..(i - 1) : t.nodes[kids[j]].type # TypeOf[name]]
    ELSE 0

existing_node(t, kids, name) ==
    IF \E i \in 1..Len(kids) : t.nodes[kids[i]].name = name
    THEN kids[CHOOSE i \in 1..Len(kids) :
                /\ t.nodes[kids[i]].name = name
                /\ \A j \in 1..(i - 1) : t.nodes[kids[j]].name # name]
    ELSE 0

\* tree["children"].append(node_data), and tree["data"][root_name] = ...
appended_first(kids, id) == <<id>> \o kids

appended(kids, id) == Append(kids, id)

\* add_to_tree(nodes, tree, parent_type, parent_name) with nodes the chain
\* below depth and tree the node parent
RECURSIVE add_to_tree_short(_, _, _, _)
add_to_tree_short(chain, depth, t, parent) ==
    IF depth + 1 >= Len(chain) THEN t
    ELSE LET found == existing_node(t, t.nodes[parent].children, chain[depth + 1])
             id == IF found = 0 THEN Len(t.nodes) + 1 ELSE found
             node_data == create_node_data(chain, depth + 1, TypeOf[chain[depth]],
                                           chain[depth])
             t1 == IF found = 0
                   THEN [t EXCEPT !.nodes =
                            Append([@ EXCEPT ![parent].children = appended(@, id)],
                                   node_data)]
                   ELSE t
         IN add_to_tree_short(chain, depth + 1, t1, id)

RECURSIVE add_to_tree(_, _, _, _)
add_to_tree(chain, depth, t, parent) ==
    IF depth >= Len(chain) THEN t
    ELSE LET found == existing_node(t, t.nodes[parent].children, chain[depth + 1])
             id == IF found = 0 THEN Len(t.nodes) + 1 ELSE found
             node_data == create_node_data(chain, depth + 1, TypeOf[chain[depth]],
                                           chain[depth])
             t1 == IF found = 0
                   THEN [t EXCEPT !.nodes =
                            Append([@ EXCEPT ![parent].children = appended(@, id)],
                                   node_data)]
                   ELSE t
         IN add_to_tree(chain, depth + 1, t1, id)

\* the body of "for item in items" for one item
build_item(t, chain) ==
    IF chain = <<>> THEN t
    ELSE LET found == existing_node(t, t.data, chain[1])
             id == IF found = 0 THEN Len(t.nodes) + 1 ELSE found
             t1 == IF found = 0
                   THEN [t EXCEPT !.data = appended(@, id),
                                  !.nodes = Append(@, create_node_data(chain, 1, None, None))]
                   ELSE t
         IN add_to_tree(chain, 1, t1, id)

\* "for item in items" from a tree t on, and build_pytest_tree(items)
RECURSIVE build_items(_, _)
build_items(t, its) ==
    IF its = <<>> THEN t ELSE build_items(build_item(t, Head(its)), Tail(its))

pytest_tree(its) == build_items(EmptyTree(its), its)

\* the items handed to build_pytest_tree, before the loop (in the runner
\* process, the app idle)
BuildInit ==
    /\ DispatcherInit /\ RunInit /\ NoTarget /\ NoCodec /\ NoPlugin /\ NoWait
    /\ NoReport /\ NoSelect
    /\ items \in ItemLists
    /\ built = 0
    /\ tree = EmptyTree(items)

\* one turn of "for item in items"
build_pytest_tree ==
    /\ built < Len(items)
    /\ tree' = build_item(tree, items[built + 1])
    /\ built' = built + 1
    /\ UNCHANGED <<dvars, run, tgt, ext, items>>

\* ---------------------------------------------------------------- Event
\* an event was constructed, nothing else happened
CodecInit ==
    /\ DispatcherInit /\ RunInit /\ NoTarget /\ NoBuild /\ NoPlugin /\ NoWait
    /\ NoReport /\ NoSelect
    /\ ev \in Events /\ wire = <<>> /\ decoded = Undecoded

\* event.serialize()
call_serialize ==
    /\ wire = <<>>
    /\ wire' = Event_serialize(ev)
    /\ UNCHANGED <<dvars, run, tgt, bld, rpt, sel, plg, wts, ev, decoded>>

\* the text is not the one that was written
garble(how) ==
    /\ wire = Event_serialize(ev)
    /\ decoded = Undecoded
    /\ wire' = garbled(wire, how)
    /\ UNCHANGED <<dvars, run, tgt, bld, rpt, sel, plg, wts, ev, decoded>>

\* Event.deserialize(text)
call_deserialize ==
    /\ wire # <<>>
    /\ decoded = Undecoded
    /\ decoded' = deserialize(wire)
    /\ UNCHANGED <<dvars, run, tgt, bld, rpt, sel, plg, wts, ev, wire>>

\* ---------------------------------------------------------------- send_event
\* send_event(event) called by hook h
send_event(e) ==
    /\ sending' = e
    /\ send_pc' = "connect"
    /\ UNCHANGED <<hook, opened, closed, written, exc>>

\* the hook pytest calls after hook h has raised: the session ends with an
\* internal error, pytest_sessionfinish is still called
raised_to(h) == IF h = "pytest_sessionfinish" THEN "exit" ELSE "pytest_sessionfinish"

\* the hook pytest calls after hook h has returned
returned_to(h) ==
    IF h = "pytest_collection_modifyitems" THEN "pytest_collection_finish"
    ELSE IF h = "pytest_collection_finish" /\ ~collect_only /\ items # <<>>
    THEN "pytest_runtest_makereport"
    ELSE IF h = "pytest_runtest_logfinish" /\ nfinished + 1 < Len(items)
    THEN "pytest_runtest_makereport"
    ELSE IF h = "pytest_sessionfinish" THEN "exit"
    ELSE "pytest_sessionfinish"

\* client_socket = socket.socket(...); client_socket.connect(("localhost", 1337)):
\* the connection is made if a server listens, else connect raises
\* ConnectionRefusedError, which neither send_event nor a hook catches
send_event_connect ==
    /\ send_pc = "connect"
    /\ IF listening
       THEN /\ opened' = opened + 1
            /\ send_pc' = "encode"
            /\ UNCHANGED <<hook, sending, exc>>
       ELSE /\ exc' = Append(exc, "ConnectionRefusedError")
            /\ send_pc' = "idle"
            /\ sending' = None
            /\ hook' = raised_to(hook)
            /\ UNCHANGED opened
    /\ UNCHANGED <<dvars, run, tgt, bld, rpt, sel, cdc, wts, enable_orisa, collect_only, nfinished,
                   closed, written>>

\* client_socket.sendall(event.deserialize().encode("utf-8")): deserialize is
\* the classmethod that takes the text to parse; called with no argument it
\* raises TypeError, so that sendall and the close() after it are not reached
send_event_encode ==
    /\ send_pc = "encode"
    /\ exc' = Append(exc, "TypeError")
    /\ send_pc' = "idle"
    /\ sending' = None
    /\ hook' = raised_to(hook)
    /\ UNCHANGED <<dvars, run, tgt, bld, rpt, sel, cdc, wts, enable_orisa, collect_only, nfinished,
                   opened, closed, written>>

\* ---------------------------------------------------------------- wait_for_server
\* wait_for_server(host, port, max_retries, retry_delay) is called; a server
\* listens on (host, port) or not yet
WaitInit ==
    /\ DispatcherInit /\ RunInit /\ NoTarget /\ NoBuild /\ NoCodec /\ NoPlugin
    /\ NoReport /\ NoSelect
    /\ max_retries \in 0..MaxRetries /\ retry_delay \in 1..MaxDelay
    /\ attempt = 0 /\ wait_pc = "for" /\ tried = <<>> /\ slept = 0
    /\ listening \in BOOLEAN

\* the server starts to listen
server_listens ==
    /\ ~listening
    /\ wait_pc \in {"for", "connect", "sleep"}
    /\ listening' = TRUE
    /\ UNCHANGED <<dvars, run, tgt, bld, rpt, sel, cdc, plg, max_retries, retry_delay, attempt,
                   wait_pc, tried, slept>>

\* for attempt in range(max_retries): the body is entered, or the loop is
\* over and the function returns None
wait_for_server_for ==
    /\ wait_pc = "for"
    /\ wait_pc' = IF attempt < max_retries THEN "connect" ELSE "returned"
    /\ UNCHANGED <<dvars, run, tgt, bld, rpt, sel, cdc, plg, max_retries, retry_delay, attempt,
                   tried, slept, listening>>

\* _, writer = await asyncio.open_connection(host, port); writer.close(); return
\* except (OSError, asyncio.TimeoutError):
\*     if attempt < max_retries - 1: sleep   else: raise Exception(...)
wait_for_server_connect ==
    /\ wait_pc = "connect"
    /\ tried' = Append(tried, listening)
    /\ wait_pc' = IF listening THEN "returned"
                  ELSE IF attempt < max_retries - 1 THEN "sleep"
                  ELSE "raised"
    /\ UNCHANGED <<dvars, run, tgt, bld, rpt, sel, cdc, plg, max_retries, retry_delay, attempt,
                   slept, listening>>

\* await asyncio.sleep(retry_delay), and the next turn of the loop
wait_for_server_sleep ==
    /\ wait_pc = "sleep"
    /\ slept' = slept + retry_delay
    /\ attempt' = attempt + 1
    /\ wait_pc' = "for"
    /\ UNCHANGED <<dvars, run, tgt, bld, rpt, sel, cdc, plg, max_retries, retry_delay, tried,
                   listening>>

\* ---------------------------------------------------------------- plugin.py, the hooks
\* the attribute access EventType.<name>
member(name) == IF name \in EventType THEN name ELSE "AttributeError"

\* a hook sends Event(type=EventType.<name>, data=data): the type is looked up
\* first, then the data is made and send_event is called
hook_sends(name, data) ==
    IF member(name) = "AttributeError"
    THEN /\ exc' = Append(exc, "AttributeError")
         /\ hook' = raised_to(hook)
         /\ UNCHANGED <<sending, send_pc, opened, closed, written>>
    ELSE send_event([type |-> member(name), data |-> data])

\* a hook returns without sending
hook_returns ==
    /\ hook' = returned_to(hook)
    /\ UNCHANGED <<sending, send_pc, opened, closed, written, exc>>

\* if config.getoption("--enable-orisa"): if config.getoption("--collect-only"):
\*     send_event(Event(type=EventType.TREE_COLLECTION, data=build_pytest_tree(items)))
pytest_collection_modifyitems ==
    /\ hook = "pytest_collection_modifyitems"
    /\ send_pc = "idle"
    /\ IF enable_orisa /\ collect_only
       THEN hook_sends("TREE_COLLECTION", pytest_tree(items))
       ELSE hook_returns
    /\ UNCHANGED <<dvars, run, tgt, bld, rpt, sel, cdc, wts, enable_orisa, collect_only, nfinished>>

\* if --enable-orisa and not --collect-only:
\*     send_event(Event(type=EventType.TESTS_TO_RUN_COLLECTION, data=[item.nodeid ...]))
pytest_collection_finish ==
    /\ hook = "pytest_collection_finish"
    /\ send_pc = "idle"
    /\ IF enable_orisa /\ ~collect_only
       THEN hook_sends("TESTS_TO_RUN_COLLECTION", items)
       ELSE hook_returns
    /\ UNCHANGED <<dvars, run, tgt, bld, rpt, sel, cdc, wts, enable_orisa, collect_only, nfinished>>

\* pytest_runtest_makereport for the report of phase w, with outcome o, of the
\* test nodeid, with --enable-orisa: what REPORT and the test item become.
\* The test item is the one of the nodeid found in a list, else a new one.
\*   report.skipped                -> status = "skipped", REPORT.skipped.append
\*   when == "call", report.passed -> status = "passed", REPORT.passed.append
\*   when == "call", report.failed -> status = "failed", REPORT.failed.append
\*   else                          -> nothing (a new test item is dropped)
makereport(nodeid, w, o) ==
    IF o = "skipped"
    THEN [REPORT |-> [REPORT EXCEPT !.skipped = Append(@, nodeid)],
          test_status |-> (nodeid :> "skipped") @@ test_status]
    ELSE IF w = "call" /\ o = "passed"
    THEN [REPORT |-> [REPORT EXCEPT !.passed = Append(@, nodeid)],
          test_status |-> (nodeid :> "passed") @@ test_status]
    ELSE IF w = "call" /\ o = "failed"
    THEN [REPORT |-> [REPORT EXCEPT !.failed = Append(@, nodeid)],
          test_status |-> (nodeid :> "failed") @@ test_status]
    ELSE [REPORT |-> REPORT, test_status |-> test_status]

\* if item.config.getoption("--enable-orisa"): ... else: yield
\* pytest reports the phases of a test in the order setup, call (if the setup
\* passed), teardown, and calls pytest_runtest_logfinish after them
pytest_runtest_makereport(o) ==
    /\ hook = "pytest_runtest_makereport"
    /\ send_pc = "idle"
    /\ nfinished < Len(items)
    /\ LET r == IF enable_orisa
                THEN makereport(items[nfinished + 1], when, o)
                ELSE [REPORT |-> REPORT, test_status |-> test_status]
       IN REPORT' = r.REPORT /\ test_status' = r.test_status
    /\ when' = IF when = "setup" /\ o = "passed" THEN "call"
               ELSE IF when = "teardown" THEN "setup"
               ELSE "teardown"
    /\ hook' = IF when = "teardown" THEN "pytest_runtest_logfinish" ELSE hook
    /\ UNCHANGED <<dvars, run, tgt, bld, sel, cdc, wts, enable_orisa, collect_only, nfinished,
                   sending, send_pc, opened, closed, written, exc>>

\* REPORT.get_test_item_by_nodeid(nodeid): the test item of the nodeid in the
\* lists passed, failed, skipped, xfailed, None if it is in none
get_test_item_by_nodeid(nodeid) ==
    IF \E k \in 1..Len(Outcomes) : nodeid \in Range(REPORT[Outcomes[k]])
    THEN nodeid ELSE None

\* test_item = REPORT.get_test_item_by_nodeid(nodeid)
\* if test_item is not None: send_event(Event(type=EventType.TEST_OUTCOME, ...))
pytest_runtest_logfinish ==
    /\ hook = "pytest_runtest_logfinish"
    /\ send_pc = "idle"
    /\ nfinished < Len(items)
    /\ nfinished' = nfinished + 1
    /\ IF get_test_item_by_nodeid(items[nfinished + 1]) # None
       THEN hook_sends("TEST_OUTCOME",
                       [nodeid |-> items[nfinished + 1],
                        status |-> test_status[items[nfinished + 1]]])
       ELSE hook_returns
    /\ UNCHANGED <<dvars, run, tgt, bld, rpt, sel, cdc, wts, enable_orisa, collect_only>>

\* if --enable-orisa and not --collect-only:
\*     send_event(Event(type=EventType.REPORT, data=asdict(REPORT)))
pytest_sessionfinish ==
    /\ hook = "pytest_sessionfinish"
    /\ send_pc = "idle"
    /\ IF enable_orisa /\ ~collect_only
       THEN hook_sends("REPORT", REPORT)
       ELSE hook_returns
    /\ UNCHANGED <<dvars, run, tgt, bld, rpt, sel, cdc, wts, enable_orisa, collect_only, nfinished>>

\* a pytest session of the runner process after collection, with the
\* collected items and the options of the command line
PluginInit ==
    /\ DispatcherInit /\ RunInit /\ NoTarget /\ NoCodec /\ NoReport /\ NoSelect
    /\ items \in ItemLists /\ built = 0 /\ tree = EmptyTree(items)
    /\ enable_orisa \in BOOLEAN /\ collect_only \in BOOLEAN
    /\ hook = "pytest_collection_modifyitems" /\ nfinished = 0
    /\ sending = None /\ send_pc = "idle" /\ opened = 0 /\ closed = 0
    /\ written = <<>> /\ exc = <<>>
    /\ max_retries = 0 /\ retry_delay = 0 /\ attempt = 0 /\ wait_pc = "none"
    /\ tried = <<>> /\ slept = 0 /\ listening \in BOOLEAN

\* the tests of a session: items with pairwise different nodeids
TestLists ==
    {its \in ItemLists :
        /\ Len(its) \in 1..MaxTests
        /\ \A i, j \in 1..Len(its) : its[i] # <<>> /\ (its[i] = its[j] => i = j)}

\* a session started with --enable-orisa and without --collect-only at the
\* moment pytest starts to run its tests
RuntestInit ==
    /\ DispatcherInit /\ RunInit /\ NoTarget /\ NoCodec /\ NoReport /\ NoSelect
    /\ items \in TestLists /\ built = 0 /\ tree = EmptyTree(items)
    /\ enable_orisa = TRUE /\ collect_only = FALSE
    /\ hook = "pytest_runtest_makereport" /\ nfinished = 0
    /\ sending = None /\ send_pc = "idle" /\ opened = 0 /\ closed = 0
    /\ written = <<>> /\ exc = <<>>
    /\ max_retries = 0 /\ retry_delay = 0 /\ attempt = 0 /\ wait_pc = "none"
    /\ tried = <<>> /\ slept = 0 /\ listening \in BOOLEAN

\* ---------------------------------------------------------------- Spec
\* The dispatcher at work: peers connect and write events, every recv returns
\* all the bytes that are pending, the UI thread registers handlers and the
\* run worker reads the last values, all interleaved.
Next ==
    \/ \E c \in Conns : Connect(c)
    \/ \E c \in Conns, t \in Types : Send(c, t)
    \/ start_loop
    \/ \E c \in Conns : start_accept(c)
    \/ start_append
    \/ start_thread
    \/ \E c \in Conns : handle_client_top(c)
    \/ \E c \in Conns : handle_client_recv(c, Len(pending(c)))
    \/ \E c \in Conns : handle_client_acquire(c)
    \/ \E c \in Conns : handle_client_lookup(c)
    \/ \E c \in Conns : handle_client_call(c)
    \/ \E c \in Conns : handle_client_check(c)
    \/ \E c \in Conns : handle_client_store(c)
    \/ \E t \in Types : register_handler_acquire(t)
    \/ register_handler_write
    \/ get_event_data_acquire("REPORT")
    \/ get_event_data_read

Spec == Init /\ [][Next]_vars

\* Framing: the bytes of a connection arrive in reads of any size, peers
\* close or reset their connections.
FramingNext ==
    \/ \E c \in Conns : Connect(c)
    \/ \E c \in Conns, t \in Types : Send(c, t)
    \/ \E c \in Conns, how \in {"closed", "reset"} : PeerEnd(c, how)
    \/ start_loop
    \/ \E c \in Conns : start_accept(c)
    \/ start_append
    \/ start_thread
    \/ \E c \in Conns : handle_client_top(c)
    \/ \E c \in Conns, k \in 1..(MaxMsgs * MsgLen) : handle_client_recv(c, k)
    \/ \E c \in Conns : handle_client_eof(c)
    \/ \E c \in Conns : handle_client_reset(c)
    \/ \E c \in Conns : handle_client_acquire(c)
    \/ \E c \in Conns : handle_client_lookup(c)
    \/ \E c \in Conns : handle_client_check(c)
    \/ \E c \in Conns : handle_client_store(c)
    \/ \E c \in Conns : handle_client_close(c)

FramingSpec == Init /\ [][FramingNext]_vars

\* Shutdown: stop() against the accept loop and the connection handlers.
StopNext ==
    \/ \E c \in Conns : Connect(c)
    \/ \E c \in Conns : PeerEnd(c, "closed")
    \/ start_loop
    \/ \E c \in Conns : start_accept(c)
    \/ start_accept_closed
    \/ start_append
    \/ start_thread
    \/ \E c \in Conns : handle_client_top(c)
    \/ \E c \in Conns : handle_client_eof(c)
    \/ \E c \in Conns : handle_client_close(c)
    \/ stop_set
    \/ stop_close
    \/ stop_join

StopSpec == Init /\ [][StopNext]_vars

\* The threads of the dispatcher take their steps: the accept thread
\* (threading.Thread running start), every handler thread, and the caller of
\* stop() once it has set the flag.  The peers owe nothing: a connection may
\* stay open and silent, and no further connection need arrive.
StopFairness ==
    /\ WF_vars(start_loop \/ (\E c \in Conns : start_accept(c)) \/ start_accept_closed
                  \/ start_append \/ start_thread)
    /\ \A c \in Conns :
          WF_vars(handle_client_top(c) \/ handle_client_eof(c) \/ handle_client_close(c))
    /\ WF_vars(stop_close \/ stop_join)

\* Shutdown with the threads scheduled fairly.
StopLiveSpec == Init /\ [][StopNext]_vars /\ StopFairness

\* The runs as the run button starts them: the runner processes, the run
\* workers and the cancel buttons.
RunNext ==
    \/ proc_stdout(1)
    \/ proc_stderr(1)
    \/ \E rc \in OK..(NO_TESTS_COLLECTED + 1) : proc_exit(1, rc)
    \/ on_click(1)
    \/ on_run_triggered
    \/ \E ok \in BOOLEAN : run_node_spawn(1, ok)
    \/ handle_cancel_test_run(1)
    \/ run_node_readline(1)
    \/ run_node_eof(1)
    \/ run_node_wait(1)
    \/ run_node_reset(1)
    \/ run_node_result(1)

RunSpec == Init /\ [][RunNext]_vars

\* A run during which the user selects nodes of the tree: a test function of
\* a module and a test function of a class.
SelectNext ==
    \/ \E node \in {n \in SelectableNodes :
                        n.type = "FUNCTION" /\ n.parent_type \in {"MODULE", "CLASS"}} :
            on_node_select(node)
    \/ proc_stdout(1)
    \/ \E rc \in {OK, TESTS_FAILED} : proc_exit(1, rc)
    \/ on_click(1)
    \/ on_run_triggered
    \/ \E ok \in BOOLEAN : run_node_spawn(1, ok)
    \/ handle_cancel_test_run(1)
    \/ run_node_readline(1)
    \/ run_node_eof(1)
    \/ run_node_wait(1)
    \/ run_node_reset(1)
    \/ run_node_result(1)

SelectSpec == Init /\ [][SelectNext]_vars


\* Runs triggered while a run is active: the run button is clicked or pressed
\* with the enter key, every run has its process, worker and cancel button.
RerunNext ==
    \/ \E s \in Runs : proc_stdout(s)
    \/ \E s \in Runs : proc_exit(s, OK)
    \/ \E n \in Runs : on_click(n)
    \/ \E n \in Runs : press(n)
    \/ on_run_triggered
    \/ \E s \in Runs : run_node_spawn(s, TRUE)
    \/ \E s \in Runs : handle_cancel_test_run(s)
    \/ \E s \in Runs : run_node_readline(s)
    \/ \E s \in Runs : run_node_eof(s)
    \/ \E s \in Runs : run_node_wait(s)
    \/ \E s \in Runs : run_node_reset(s)
    \/ \E s \in Runs : run_node_result(s)

RerunSpec == Init /\ [][RerunNext]_vars

\* A run whose tests pass or fail while the plugin sends its REPORT events to
\* the dispatcher.
ReportNext ==
    \/ Connect(1)
    \/ Send(1, "REPORT")
    \/ start_loop
    \/ start_accept(1)
    \/ start_append
    \/ start_thread
    \/ handle_client_top(1)
    \/ handle_client_recv(1, Len(pending(1)))
    \/ handle_client_acquire(1)
    \/ handle_client_lookup(1)
    \/ handle_client_check(1)
    \/ handle_client_store(1)
    \/ proc_stdout(1)
    \/ \E rc \in {OK, TESTS_FAILED} : proc_exit(1, rc)
    \/ on_click(1)
    \/ on_run_triggered
    \/ run_node_spawn(1, TRUE)
    \/ run_node_readline(1)
    \/ run_node_eof(1)
    \/ run_node_wait(1)
    \/ run_node_reset(1)
    \/ run_node_result(1)

ReportSpec == Init /\ [][ReportNext]_vars

\* plugin.run_node on every selectable node and flag list.
TargetNext == Popen

TargetSpec == TargetInit /\ [][TargetNext]_vars

\* plugin.build_pytest_tree on every item list.
BuildNext == build_pytest_tree

BuildSpec == BuildInit /\ [][BuildNext]_vars

\* Events through the codec: serialized, possibly garbled, deserialized.
CodecNext ==
    \/ call_serialize
    \/ \E how \in {"cut", "twice", "retype", "array"} : garble(how)
    \/ call_deserialize

CodecSpec == CodecInit /\ [][CodecNext]_vars

\* The dispatcher of the mounted app while a test session sends its events:
\* TestsTree.on_mount registers the only handler of the app, for the type
\* "tests_collected"; messages of that type, TESTS_SCHEDULED and TEST_OUTCOME
\* arrive, one connection for every sender.
EventsNext ==
    \/ \E c \in Conns : Connect(c)
    \/ \E c \in Conns, t \in {"TESTS_SCHEDULED", "TEST_OUTCOME", tests_collected} : Send(c, t)
    \/ start_loop
    \/ \E c \in Conns : start_accept(c)
    \/ start_append
    \/ start_thread
    \/ \E c \in Conns : handle_client_top(c)
    \/ \E c \in Conns : handle_client_recv(c, Len(pending(c)))
    \/ \E c \in Conns : handle_client_acquire(c)
    \/ \E c \in Conns : handle_client_lookup(c)
    \/ \E c \in Conns : handle_client_call(c)
    \/ \E c \in Conns : handle_client_check(c)
    \/ \E c \in Conns : handle_client_store(c)
    \/ register_handler_acquire(tests_collected)
    \/ register_handler_write

EventsSpec == Init /\ [][EventsNext]_vars

\* wait_for_server for every max_retries and retry_delay, against a server
\* that listens from the start, from some moment on, or never.
WaitNext ==
    \/ server_listens
    \/ wait_for_server_for
    \/ wait_for_server_connect
    \/ wait_for_server_sleep

WaitSpec == WaitInit /\ [][WaitNext]_vars

\* The hooks of the plugin in a pytest session, in the order pytest calls them.
PluginNext ==
    \/ pytest_collection_modifyitems
    \/ pytest_collection_finish
    \/ \E o \in {"passed", "failed", "skipped"} : pytest_runtest_makereport(o)
    \/ pytest_runtest_logfinish
    \/ pytest_sessionfinish
    \/ send_event_connect
    \/ send_event_encode

PluginSpec == PluginInit /\ [][PluginNext]_vars

\* The runtest protocol: pytest reports the phases of every test to
\* pytest_runtest_makereport, calls pytest_runtest_logfinish after the last
\* phase of a test and pytest_sessionfinish after the last test.
RuntestNext ==
    \/ \E o \in {"passed", "failed", "skipped"} : pytest_runtest_makereport(o)
    \/ pytest_runtest_logfinish
    \/ pytest_sessionfinish
    \/ send_event_connect
    \/ send_event_encode

RuntestSpec == RuntestInit /\ [][RuntestNext]_vars

\* ================================================================ properties
Dispatching == {"acquire", "lookup", "call", "check", "store"}
Reading == {"top", "recv", "close"}

\* the part of the stream that recv returned and that is still in the buffer
InBuffer(c) == SubSeq(stream[c], rpos[c] - Len(buffer[c]) + 1, rpos[c])

\* two complete messages sit in the buffer
Coalesced(c) ==
    /\ Len(buffer[c]) >= 2 * MsgLen
    /\ loads_ok(SubSeq(buffer[c], 1, MsgLen))
    /\ loads_ok(SubSeq(buffer[c], MsgLen + 1, 2 * MsgLen))

\* C1: every parsed message is either handed exactly once to the handler
\* registered for its type or stored in event_data: a message that is about
\* to be stored was not handed to a handler (never both), and a message that
\* ends its dispatch without being stored was handed to a handler once
\* (never neither).
C1_DeliveredXorStored ==
    \A c \in Conns :
        /\ pc[c] = "store" => delivered[c] = 0
        /\ (pc[c] = "check" /\ ~unhandled(event[c].type)) => delivered[c] = 1

\* C2: event_data changes only when a handler thread stores the message in
\* its buffer, whose dispatch began with no handler registered for its type,
\* and then holds that message's payload; a message whose type has no
\* handler when its dispatch checks is stored; get_event_data returns the
\* stored payload.
C2_LastValue ==
    [][ /\ \A t \in Types :
            event_data'[t] # event_data[t] =>
                \E c \in Conns :
                    /\ pc[c] = "store" /\ pc'[c] = "top"
                    /\ loads(buffer[c]).type = t
                    /\ event_data'[t] = loads(buffer[c]).data
                    /\ beganWith[c] = 0
        /\ \A c \in Conns :
            /\ (pc[c] = "store" /\ pc'[c] = "top") =>
                    event_data'[loads(buffer[c]).type] = loads(buffer[c]).data
            /\ (pc[c] = "check" /\ pc'[c] # "check"
                    /\ event_handlers[loads(buffer[c]).type] = 0) => pc'[c] = "store"
        /\ (get_pc = "read" /\ get_pc' = "idle") => got' = event_data[get_type]
      ]_vars

\* a newer payload is about to replace an older one of the same type
C2_Witness ==
    \E c \in Conns :
        /\ pc[c] = "store"
        /\ event_data[event[c].type] \notin {None, event[c].data}

\* C3: a dispatch runs on a buffer that is exactly the one message completed
\* by the last read; outside a dispatch the buffer never holds a parseable
\* message, it holds the bytes read since a message boundary; every read
\* appends to the buffer and starts a dispatch exactly when the whole buffer
\* parses; nothing is read during a dispatch and the buffer is empty when the
\* dispatch ends.
C3_FramingState ==
    \A c \in Conns :
        /\ pc[c] \in Dispatching =>
                /\ loads_ok(buffer[c])
                /\ event[c] = loads(buffer[c])
                /\ buffer[c] = SubSeq(stream[c], rpos[c] - MsgLen + 1, rpos[c])
        /\ pc[c] \in Reading =>
                /\ ~loads_ok(buffer[c])
                /\ buffer[c] = InBuffer(c)
                /\ (rpos[c] - Len(buffer[c])) % MsgLen = 0
        /\ (pc[c] \in Reading /\ rpos[c] = MsgLen) => buffer[c] = <<>>

C3_FramingStep ==
    \A c \in Conns :
        /\ (pc'[c] = "acquire" /\ pc[c] # "acquire") => rpos'[c] > rpos[c]
        /\ rpos'[c] # rpos[c] =>
                LET buf == buffer[c] \o SubSeq(stream[c], rpos[c] + 1, rpos'[c]) IN
                /\ buffer'[c] = buf
                /\ pc'[c] = IF loads_ok(buf) THEN "acquire" ELSE "top"
                /\ event_data' = event_data
        /\ pc[c] \in Dispatching => rpos'[c] = rpos[c]
        /\ (pc[c] \in {"check", "store"} /\ pc'[c] = "top") => buffer'[c] = <<>>

C3_Framing == []C3_FramingState /\ [][C3_FramingStep]_vars

\* a message that arrived in two or more reads is being dispatched
C3_Witness == \E c \in Conns : pc[c] = "acquire" /\ reads[c] = 2

C5_HandlerReplaced ==
    /\ [](\A c \in Conns :
            pc[c] = "call" => (handler[c] # 0 /\ handler[c] >= beganWith[c]))
    /\ [][ /\ \A t \in Types :
                event_handlers'[t] # event_handlers[t] =>
                    /\ reg_pc = "write"
                    /\ t = reg_type
                    /\ event_handlers'[t] = nregs'
                    /\ \A u \in Types \ {t} : event_handlers'[u] = event_handlers[u]
           /\ (reg_pc = "write" /\ reg_pc' = "idle") => event_handlers'[reg_type] = nregs'
          ]_vars

\* the second handler registered for a type is about to be called with a
\* message whose dispatch began after it replaced the first
C5_Witness ==
    \E c \in Conns :
        /\ pc[c] = "call"
        /\ handler[c] = 2
        /\ beganWith[c] = 2
        /\ \A t \in Types \ {event[c].type} : event_handlers[t] = 0

\* C6: after stop() has returned no connection handler thread is running.
C6_StopJoinsAll ==
    stop_pc = "returned" => \A c \in Conns : tstate[c] # "running"

\* C7: a thread that is about to read or write event_handlers or event_data
\* holds the lock.
C7_AccessUnderLock ==
    /\ \A c \in Conns : pc[c] \in {"lookup", "check", "store"} => lock = Thr(c)
    /\ reg_pc = "write" => lock = UI
    /\ get_pc = "read" => lock = Worker

\* the next step of the handler thread of connection c
handle_client_step(c) ==
    \/ handle_client_top(c)
    \/ \E k \in 1..(MaxMsgs * MsgLen) : handle_client_recv(c, k)
    \/ handle_client_eof(c)
    \/ handle_client_reset(c)
    \/ handle_client_acquire(c)
    \/ handle_client_lookup(c)
    \/ handle_client_check(c)
    \/ handle_client_store(c)
    \/ handle_client_close(c)

\* C8: the buffer of a connection holds bytes of its own stream only, and a
\* handler that has something to do can always take its next step, whatever
\* the state of the other connections: it waits only in recv for bytes of
\* its own connection, or for the lock while another handler is inside its
\* lookup, which that handler can leave at once.
C8_Independent ==
    \A c \in Conns :
        /\ Len(buffer[c]) <= rpos[c] /\ rpos[c] <= Len(stream[c])
        /\ pc[c] \in Dispatching \cup Reading => buffer[c] = InBuffer(c)
        /\ lock # Thr(c) => pc[c] # "lookup"
        /\ (tstate[c] = "running"
                /\ ~(pc[c] = "recv" /\ pending(c) = <<>> /\ peer[c] = "open")) =>
            \/ ENABLED handle_client_step(c)
            \/ /\ pc[c] = "acquire"
               /\ \E d \in Conns \ {c} : lock = Thr(d) /\ ENABLED handle_client_lookup(d)

\* one connection sits on a buffer that does not parse while the handler of
\* another stores its message
C8_Witness ==
    \E c, d \in Conns :
        /\ c # d
        /\ pc[c] = "recv" /\ buffer[c] # <<>>
        /\ pc[d] = "store"

\* how the ended run is presented to the user
Presented(s) ==
    IF notification[s] = "PASSED" THEN "passed"
    ELSE IF notification[s] = "FAILED" THEN "failed"
    ELSE IF notification[s] = "Run cancelled" THEN "cancelled"
    ELSE IF tab_color[s] = "darkgrey" THEN "errored"
    ELSE "none"

\* the outcome the table of exit codes gives
Classified(rc) ==
    IF rc = OK THEN "passed"
    ELSE IF rc = TESTS_FAILED THEN "failed"
    ELSE IF rc = TERMINATED THEN "cancelled"
    ELSE "errored"

\* the exit codes of the table
Tabled == (OK..NO_TESTS_COLLECTED) \cup {TERMINATED}

\* C9: when the run has ended, it is presented as the outcome that the table
\* gives for its exit code: 0 passed, 1 failed, 2, 3, 4 and 5 errored, and a
\* terminated run cancelled.
C9_ExitCodeClassified ==
    \A s \in Runs :
        run_pc[s] = "done" /\ returncode[s] \in Tabled =>
            Presented(s) = Classified(returncode[s])

\* C10: the log holds at most one cancellation banner and no line of the
\* process after it.
C10_NothingAfterBanner ==
    \A s \in Runs : \A i \in 1..Len(run_log[s]) :
        run_log[s][i][1] = "banner" =>
            /\ i + (Len(Banner) - run_log[s][i][2]) = Len(run_log[s])
            /\ \A j \in 1..Len(run_log[s]) : run_log[s][j] = run_log[s][i] => j = i

\* C11: a run that was asked to cancel while it streamed ends as cancelled
\* (never as passed or failed), its log is the lines it held when it was asked
\* followed by the lines of the banner, and the report is not fetched for it.
C11_CancelledWhileStreaming ==
    \A s \in Runs :
        run_pc[s] = "done" /\ asked[s] # <<>> =>
            /\ Presented(s) = "cancelled"
            /\ run_log[s] = asked[s][1] \o Banner
            /\ ~fetched[s]

\* the run is Starting or Streaming: its worker is before the end of the
\* reading of standard output
Active(s) == run_pc[s] \in {"spawn", "stream"}

\* C12: at most one run is Starting or Streaming and at most one process is
\* alive, and when a run starts, every run that is active then has been asked
\* to cancel.
C12_Exclusive ==
    /\ [](/\ Cardinality({s \in Runs : Active(s)}) <= 1
          /\ Cardinality({s \in Runs : proc[s] = "running"}) <= 1)
    /\ [][\A n \in Runs :
            run_pc[n] = "idle" /\ run_pc'[n] = "spawn" =>
                \A s \in Runs : Active(s) => is_cancelled'[s]]_vars

\* the label every node gets from _update_final_labels for a report
final_labels(r) ==
    LET results == extract_results_from_report(r) IN
    [n \in Nodes |-> IF n \in DOMAIN results THEN get_status_icon(results[n]) ELSE Bare]

\* C13: when a run has ended with exit code 0 or 1, the report was fetched
\* with get_event_data(REPORT) and attached to the run, and every node of the
\* tree is decorated with the status of the list of the report it is in.
C13_ReportDecorates ==
    \A s \in Runs :
        run_pc[s] = "done" /\ returncode[s] \in {OK, TESTS_FAILED} =>
            /\ fetched[s]
            /\ report[s] # None => label = final_labels(ReportOf[report[s]])

\* C14: after a run has ended errored or cancelled every node shows its bare
\* name, and for an errored run the report was not fetched and a notification
\* names the error.
C14_ErroredResetsAndNotifies ==
    \A s \in Runs :
        run_pc[s] = "done" /\ returncode[s] \in Tabled
          /\ Classified(returncode[s]) \in {"errored", "cancelled"} =>
            /\ \A n \in Nodes : label[n] = Bare
            /\ Classified(returncode[s]) = "errored" =>
                  ~fetched[s] /\ notification[s] # "none"

\* C15: a run whose spawn failed ends errored; nothing was streamed, no process
\* was started a second time and the report was not fetched.
C15_SpawnFailureErrored ==
    \A s \in Runs :
        run_pc[s] = "raised" =>
            /\ Presented(s) = "errored"
            /\ proc[s] = "none" /\ run_log[s] = <<>> /\ ~fetched[s]

\* C16: for every exit code, of the table or not, the run that has ended is
\* presented with a classification.
C16_EveryCodeClassified ==
    \A s \in Runs : run_pc[s] = "done" => Presented(s) # "none"

\* the first n lines the process wrote to a stream
Lines(kind, n) == [i \in 1..n |-> <<kind, i>>]

\* no banner was written to the log of the run
Unbroken(s) == \A i \in 1..Len(run_log[s]) : run_log[s][i][1] # "banner"

ActiveUpTo(i) == Cardinality({j \in 1..i : pytest_cli_flags[j][2]})

\* C18: the argument after "pytest" is path::parent_name::name for a FUNCTION
\* under a CLASS, path::name for a CLASS and for any other FUNCTION, and the
\* path otherwise; the arguments after --enable-orisa are the active flags, each
\* once and in the order of the flag list, and no flag that is only disabled.
C18_TargetAndFlags ==
    args # <<>> =>
        LET node == current_selected_node
            flags == SubSeq(args, 4, Len(args))
        IN  /\ node.type = "FUNCTION" /\ node.parent_type = "CLASS" =>
                  args[2] = "path::parent::name"
            /\ node.type = "CLASS" => args[2] = "path::name"
            /\ node.type = "FUNCTION" /\ node.parent_type # "CLASS" =>
                  args[2] = "path::name"
            /\ node.type \notin {"CLASS", "FUNCTION"} => args[2] = "path"
            /\ Len(flags) = ActiveUpTo(Len(pytest_cli_flags))
            /\ \A i \in 1..Len(pytest_cli_flags) :
                  pytest_cli_flags[i][2] =>
                      /\ flags[ActiveUpTo(i)] = pytest_cli_flags[i][1]
                      /\ Cardinality({k \in 1..Len(flags) :
                                        flags[k] = pytest_cli_flags[i][1]}) = 1
            /\ \A k \in 1..Len(flags) :
                  \E i \in 1..Len(pytest_cli_flags) :
                      pytest_cli_flags[i] = <<flags[k], TRUE>>

C18_Witness ==
    /\ args # <<>>
    /\ current_selected_node.type = "FUNCTION"
    /\ current_selected_node.parent_type = "CLASS"
    /\ \E i, j \in 1..Len(pytest_cli_flags) :
          i < j /\ ~pytest_cli_flags[i][2] /\ pytest_cli_flags[j][2]

\* the chains built into the tree so far
Built == {items[k] : k \in 1..built}

\* the prefixes of the chains built so far, the empty one left out
Prefixes == UNION {{SubSeq(c, 1, d) : d \in 1..Len(c)} : c \in Built}

\* the names from a root down to node id, following the children lists
RECURSIVE PathOf(_)
PathOf(id) ==
    IF \E p \in 1..Len(tree.nodes) : \E i \in 1..Len(tree.nodes[p].children) :
            tree.nodes[p].children[i] = id
    THEN LET p == CHOOSE p \in 1..Len(tree.nodes) :
                    \E i \in 1..Len(tree.nodes[p].children) :
                        tree.nodes[p].children[i] = id
         IN Append(PathOf(p), tree.nodes[id].name)
    ELSE <<tree.nodes[id].name>>

\* the lists of siblings: the roots and the children of every node
Siblings == {tree.data} \cup {tree.nodes[p].children : p \in 1..Len(tree.nodes)}

\* C19: roots have pairwise distinct names and so have the children of every
\* node; every chain built in lies in the tree under the names of its
\* prefixes, one node for every prefix, so that a chain sharing a prefix with
\* an earlier one reuses its nodes and a chain built in twice adds no node.
C19_MergedByName ==
    /\ \A kids \in Siblings : \A i, j \in 1..Len(kids) :
          tree.nodes[kids[i]].name = tree.nodes[kids[j]].name => i = j
    /\ \A id \in 1..Len(tree.nodes) : PathOf(id) \in Prefixes
    /\ \A a, b \in 1..Len(tree.nodes) : PathOf(a) = PathOf(b) => a = b
    /\ Len(tree.nodes) = Cardinality(Prefixes)

C19_Witness ==
    /\ built = Len(items) /\ built >= 3
    /\ \E i, j, k \in 1..built :
          /\ i < j /\ items[i] = items[j] /\ Len(items[i]) >= 2
          /\ items[k] # items[i] /\ Len(items[k]) >= 2
          /\ SubSeq(items[k], 1, 2) = SubSeq(items[i], 1, 2)

\* the first of the items whose chain passes through the node of a path
FirstSeen(path) ==
    CHOOSE k \in 1..built :
        /\ Len(items[k]) >= Len(path) /\ SubSeq(items[k], 1, Len(path)) = path
        /\ \A m \in 1..(k - 1) :
              ~(Len(items[m]) >= Len(path) /\ SubSeq(items[m], 1, Len(path)) = path)

\* C20: the roots, and the children of every node, stand in the order in
\* which the items first introduce them; the items pkg/test_a.py::TestX::test_one
\* and ::test_two build one root pkg, one module, one class and the two
\* functions as its children, test_one first.
C20_FirstSeenOrder ==
    /\ \A kids \in Siblings : \A i, j \in 1..Len(kids) :
          i < j <=> FirstSeen(PathOf(kids[i])) < FirstSeen(PathOf(kids[j]))
    /\ (built = 2 /\ items = << <<"pkg", "test_a.py", "TestX", "test_one">>,
                               <<"pkg", "test_a.py", "TestX", "test_two">> >>) =>
          /\ Len(tree.nodes) = 5 /\ Len(tree.data) = 1
          /\ \E r, m, c, f, g \in 1..5 :
                /\ tree.data = <<r>> /\ tree.nodes[r].name = "pkg"
                /\ tree.nodes[r].children = <<m>> /\ tree.nodes[m].type = "MODULE"
                /\ tree.nodes[m].children = <<c>> /\ tree.nodes[c].type = "CLASS"
                /\ tree.nodes[c].children = <<f, g>>
                /\ tree.nodes[f].name = "test_one" /\ tree.nodes[g].name = "test_two"
                /\ tree.nodes[f].children = <<>> /\ tree.nodes[g].children = <<>>

C20_Witness ==
    /\ built = 2
    /\ items = << <<"pkg", "test_a.py", "TestX", "test_one">>,
                  <<"pkg", "test_a.py", "TestX", "test_two">> >>

\* the chains from a root down to a leaf, depth first along the children
\* lists; kids are siblings and path the names of their ancestors
RECURSIVE ChainsBelow(_, _, _)
ChainsBelow(t, kids, path) ==
    IF kids = <<>> THEN <<>>
    ELSE LET p == Append(path, t.nodes[Head(kids)].name) IN
         (IF t.nodes[Head(kids)].children = <<>>
          THEN <<p>>
          ELSE ChainsBelow(t, t.nodes[Head(kids)].children, p))
         \o ChainsBelow(t, Tail(kids), path)

flatten(t) == ChainsBelow(t, t.data, <<>>)

\* the tree as nested nodes: every node with all its fields, children being
\* the list of the nested children
RECURSIVE Unfold(_, _)
Unfold(t, kids) ==
    [i \in 1..Len(kids) |->
        [t.nodes[kids[i]] EXCEPT !.children = Unfold(t, t.nodes[kids[i]].children)]]

Nested(t) == Unfold(t, t.data)

IsPrefix(a, b) == Len(a) <= Len(b) /\ SubSeq(b, 1, Len(a)) = a

\* the items are leaves: no chain is empty, none occurs twice or ends inside
\* another
WellFormed(its) ==
    \A i \in 1..Len(its) :
        /\ its[i] # <<>>
        /\ \A j \in 1..Len(its) : j # i => ~IsPrefix(its[i], its[j])

\* C21: the tree built from the root-to-leaf chains of the built tree has the
\* same roots in the same order, and under them the same nodes with the same
\* fields and the same children in the same order; for items that are leaves
\* meta.total is the same too.
C21_RebuildIdempotent ==
    built = Len(items) =>
        LET again == pytest_tree(flatten(tree)) IN
        /\ Nested(again) = Nested(tree)
        /\ WellFormed(items) => again.total = tree.total

\* three leaves under two roots, built in an order that is not the order of
\* the tree
C21_Witness ==
    /\ built = Len(items) /\ built = 3
    /\ WellFormed(items)
    /\ Len(tree.data) = 2
    /\ flatten(tree) # items

\* the nodes on the way from a root down to node id carry the type and the
\* name of the node whose children list holds them, the root carries None
RECURSIVE Linked(_)
Linked(id) ==
    IF \E i \in 1..Len(tree.data) : tree.data[i] = id
    THEN tree.nodes[id].parent_type = None /\ tree.nodes[id].parent_name = None
    ELSE \E p \in 1..Len(tree.nodes) :
            /\ \E i \in 1..Len(tree.nodes[p].children) : tree.nodes[p].children[i] = id
            /\ tree.nodes[id].parent_type = tree.nodes[p].type
            /\ tree.nodes[id].parent_name = tree.nodes[p].name
            /\ Linked(p)

\* C22: for every item exactly one node of the built tree has the item's
\* nodeid, and from that node parent_type and parent_name name, level by
\* level, the node that holds it among its children, up to a root whose
\* parent_type and parent_name are None.
C22_LeafOnceLinked ==
    built = Len(items) =>
        \A k \in 1..Len(items) :
            items[k] # <<>> =>
                /\ Cardinality({id \in 1..Len(tree.nodes) :
                                  tree.nodes[id].nodeid = items[k]}) = 1
                /\ \A id \in 1..Len(tree.nodes) :
                      tree.nodes[id].nodeid = items[k] => Linked(id)

\* a function of a class was built into nodes that an earlier item made
C22_Witness ==
    /\ built = Len(items)
    /\ \E i, k \in 1..built :
          /\ i < k /\ items[i] # items[k]
          /\ Len(items[i]) = 4 /\ Len(items[k]) = 4
          /\ SubSeq(items[i], 1, 3) = SubSeq(items[k], 1, 3)

\* C23: when a collect-only session of the runner has ended, send_event has
\* written exactly one event, the TESTS_COLLECTED event whose data is the tree
\* built from the collected items with meta.total the number of items.
C23_CollectOnlyPushesTree ==
    (hook = "exit" /\ enable_orisa /\ collect_only /\ listening) =>
        /\ written = <<serialize("TESTS_COLLECTED", pytest_tree(items))>>
        /\ pytest_tree(items).total = Len(items)

\* C26: every call of send_event that has ended opened one connection, wrote
\* the encoding of its event on it and closed it, or, with no server
\* listening, opened none and raised the error of connect.
C26_OneConnectionOneEvent ==
    /\ [](send_pc = "idle" => opened = Len(written) /\ closed = opened)
    /\ [][(send_pc # "idle" /\ send_pc' = "idle") =>
            IF listening
            THEN /\ written' = Append(written, serialize(sending.type, sending.data))
                 /\ exc' = exc
            ELSE /\ exc' = Append(exc, "ConnectionRefusedError")
                 /\ opened' = opened /\ written' = written]_vars

\* the value is made of what JSON has: no tuple, and str keys in every dict
RECURSIVE JsonNative(_)
JsonNative(x) ==
    IF x.k \in {"str", "int", "float", "None"} THEN TRUE
    ELSE IF x.k = "list" THEN \A i \in 1..Len(x.v) : JsonNative(x.v[i])
    ELSE IF x.k = "dict"
    THEN \A i \in 1..Len(x.v) : x.v[i][1].k = "str" /\ JsonNative(x.v[i][2])
    ELSE FALSE

\* the text that was written was deserialized
RoundTrip == decoded # Undecoded /\ wire = Event_serialize(ev)

\* C24 as stated: deserialize(serialize(e)) = e for every event, whatever its
\* payload.
C24_RoundTripAny == RoundTrip => decoded = returns(ev)

\* C24: deserialize(serialize(e)) = e for every event of every type whose
\* payload holds no tuple and no dict key that is not a str.
C24_RoundTrip == (RoundTrip /\ JsonNative(ev.data)) => decoded = returns(ev)

\* the round trip of a nested dict with a float and a None in it
C24_Witness ==
    /\ RoundTrip /\ decoded = returns(ev)
    /\ ev.data.k = "dict"
    /\ \E i \in 1..Len(ev.data.v) : ev.data.v[i][2].k \in {"float", "dict"}

\* C25: a message is dispatched only if Event.deserialize accepts it: no
\* handler is called with, and no last value is stored for, a message whose
\* type is not the value of a member of EventType.
C25_OnlyRecognizedDispatched ==
    /\ \A c \in Conns :
          pc[c] \in {"call", "store"} => event[c].type \in EventType
    /\ \A t \in Keys \ EventType : event_data[t] = None

\* a node and the nodes below it in the tests tree
Subtree(n) == {n} \cup ChildrenOf[n]

\* C28: when a run has ended with a report attached, every node whose nodeid
\* is in a list of the report shows the icon of its outcome, which is one of
\* the terminal icons, and every other node shows its bare name; no pending
\* mark is left.
C28_FinalLabelsFromMap ==
    \A s \in Runs :
        (run_pc[s] = "done" /\ report[s] # None) =>
            LET results == extract_results_from_report(ReportOf[report[s]]) IN
            \A n \in Nodes :
                IF n \in DOMAIN results
                THEN /\ label[n] = get_status_icon(results[n])
                     /\ label[n] \in {"green", "red", "yellow"}
                ELSE label[n] = Bare

\* the nodes a TESTS_SCHEDULED event with payload d marks: those whose nodeid
\* it lists and the nodes below them
Scheduled(d) == UNION {Subtree(n) : n \in Range(ScheduledOf[d])}

\* C29: once a TESTS_SCHEDULED event was dispatched, and no TEST_OUTCOME event
\* after it, every node it lists and every node below one carries the
\* pending mark and every other node its bare name.
C29_ScheduledMarksPending ==
    (event_data["TESTS_SCHEDULED"] # None /\ event_data["TEST_OUTCOME"] = None) =>
        \A n \in Nodes :
            label[n] = IF n \in Scheduled(event_data["TESTS_SCHEDULED"])
                       THEN Pending ELSE Bare

\* C30: once a TEST_OUTCOME event was dispatched its node carries the icon of
\* its status if no TESTS_SCHEDULED event was dispatched, the icon or the
\* pending mark (whichever event came last) if one was, and no node that
\* neither event names carries a mark.
C30_OutcomeMarksNode ==
    event_data["TEST_OUTCOME"] # None =>
        LET o == OutcomeOf[event_data["TEST_OUTCOME"]]
            d == event_data["TESTS_SCHEDULED"]
        IN  /\ d = None => label[o.nodeid] = get_status_icon(o.status)
            /\ label[o.nodeid] \in {get_status_icon(o.status), Pending}
            /\ \A n \in Nodes \ {o.nodeid} :
                  (d = None \/ n \notin Scheduled(d)) => label[n] = Bare

\* the attempts made so far that failed
Failed == {i \in 1..Len(tried) : ~tried[i]}

\* C27: wait_for_server returns only after an attempt that succeeded, which
\* is its last; it raises only after max_retries attempts that all failed;
\* it never makes more than max_retries attempts, and it has slept
\* retry_delay once between every two consecutive attempts.
C27_WaitForServer ==
    /\ wait_pc = "returned" =>
          /\ tried # <<>>
          /\ Failed = 1..(Len(tried) - 1)
    /\ wait_pc = "raised" =>
          /\ Len(tried) = max_retries
          /\ Failed = 1..max_retries
    /\ Len(tried) <= max_retries
    /\ wait_pc \in {"connect", "returned", "raised"} =>
          slept = retry_delay * (IF wait_pc = "connect" THEN Len(tried) ELSE Len(tried) - 1)

\* the steps of the UI loop: the handlers of the messages of the run button
\* and of the cancel buttons
UILoop ==
    \/ \E n \in Runs : on_click(n) \/ press(n)
    \/ on_run_triggered
    \/ \E b \in Runs : handle_cancel_test_run(b)

\* C31: the labels of the tree, the log, the report, the colour of the tab
\* and the state of the run button change only in a step of the UI loop, never
\* in a step of a connection handler thread or of the worker of a run.
C31_SingleWriter ==
    [][<<label, run_log, report, tab_color, run_button>>'
            # <<label, run_log, report, tab_color, run_button>> => UILoop]_vars

\* the events send_event has written, by their types
WrittenTypes == [i \in 1..Len(written) |-> written[i][2]]

\* C32: when a session that runs tests has ended, send_event has written one
\* TESTS_SCHEDULED event, then one TEST_OUTCOME event for every test, in the
\* order of the tests, then one REPORT event.
C32_ScheduledOutcomesReport ==
    (hook = "exit" /\ enable_orisa /\ ~collect_only /\ listening) =>
        /\ Len(written) = Len(items) + 2
        /\ WrittenTypes[1] = "TESTS_SCHEDULED"
        /\ \A k \in 1..Len(items) :
              /\ WrittenTypes[k + 1] = "TEST_OUTCOME"
              /\ written[k + 1][3].nodeid = items[k]
        /\ WrittenTypes[Len(items) + 2] = "REPORT"

\* the places of a nodeid in the lists of REPORT
Places(nodeid) ==
    UNION {{<<l, i>> : i \in {j \in 1..Len(REPORT[l]) : REPORT[l][j] = nodeid}} :
              l \in Range(Outcomes)}

\* C33: whatever phases were reported, a nodeid is in at most one of the
\* lists of REPORT, at most once, and the status of its test item is the name
\* of that list; when the session has ended, send_event has written one REPORT
\* event.
C33_ReportPartitions ==
    /\ \A k \in 1..Len(items) :
          /\ Cardinality(Places(items[k])) <= 1
          /\ \A p \in Places(items[k]) : test_status[items[k]] = p[1]
    /\ (hook = "exit" /\ listening) =>
          Cardinality({i \in 1..Len(written) : WrittenTypes[i] = "REPORT"}) = 1

\* what a step of one connection leaves alone: the handlers, the last values,
\* and the socket and the handler thread of every other connection
OthersKept(c) ==
    /\ event_handlers' = event_handlers /\ event_data' = event_data
    /\ delivered' = delivered
    /\ \A d \in Conns \ {c} :
          <<conn[d], stream[d], rpos[d], peer[d], tstate[d], pc[d], buffer[d], event[d],
            handler[d]>>' =
          <<conn[d], stream[d], rpos[d], peer[d], tstate[d], pc[d], buffer[d], event[d],
            handler[d]>>

\* C34: a handler whose recv finds the connection reset, or closed with every
\* byte read, leaves its loop for the close of its socket and does nothing
\* else; from there it only closes the socket and ends, it never dispatches;
\* a handler that has ended has dropped its buffer; and none of these steps
\* changes the handlers, the last values or another connection.
C34_PeerEndEndsHandler ==
    /\ [](\A c \in Conns : pc[c] = "done" => tstate[c] = "finished" /\ buffer[c] = <<>>)
    /\ [][\A c \in Conns :
            /\ (pc[c] = "recv" /\ pc'[c] # "recv"
                  /\ (peer[c] = "reset" \/ (peer[c] = "closed" /\ pending(c) = <<>>))) =>
                    /\ pc'[c] = "close" /\ tstate'[c] = "running"
                    /\ buffer'[c] = buffer[c] /\ rpos'[c] = rpos[c]
                    /\ OthersKept(c)
            /\ (pc[c] = "close" /\ pc'[c] # "close") =>
                    /\ pc'[c] = "done" /\ tstate'[c] = "finished"
                    /\ OthersKept(c)
            /\ pc[c] = "done" => pc'[c] = "done"
          ]_vars

\* a handler has ended on a reset with a part of a message read, while the
\* handler of the other connection holds a part of a message of its own
C34_Witness ==
    \E c, d \in Conns :
        /\ c # d
        /\ pc[c] = "done" /\ peer[c] = "reset" /\ rpos[c] % MsgLen # 0
        /\ tstate[d] = "running" /\ buffer[d] # <<>> /\ peer[d] = "open"

\* C35: the report attached to a run that ended with exit code 0 or 1 is a
\* report, not None, and not the one that was stored already when the process
\* of the run was spawned, which an earlier session has sent.
C35_ReportOfOwnRunner ==
    \A s \in Runs :
        (run_pc[s] = "done" /\ returncode[s] \in {OK, TESTS_FAILED}) =>
            /\ report[s] # None
            /\ <<report[s]>> # stored_before[s]

\* C38: the node a run calls plugin.run_node with, and the node its result is
\* handled and notified with, are the node that was selected when the run was
\* triggered.
C38_NodeOfTheTrigger ==
    \A s \in Runs :
        /\ spawned_node[s] # <<>> => spawned_node[s] = triggered_node[s]
        /\ notified_node[s] # <<>> => notified_node[s] = triggered_node[s]

\* C36: while a run is Starting or Streaming, the end of an earlier run (the
\* reset of the run button, the handling of its return code) does not enable
\* the run button, does not change the colour of the tab of the later run and
\* does not change the labels of the tree.
C36_SupersededKeepsToItself ==
    [][\A s, n \in Runs :
            (s < n /\ Active(n) /\ run_pc[s] \in {"reset", "result"}
                   /\ run_pc'[s] # run_pc[s]) =>
                /\ run_button' = run_button
                /\ tab_color'[n] = tab_color[n]
                /\ label' = label
      ]_vars

\* C37: a press of the Cancel button of the status bar of a run sets the
\* cancelled flag of no other run.
C37_CancelOwnRunOnly ==
    [][\A b \in Runs :
            (action_button[b] = "Cancel" /\ action_button'[b] = "Canceled") =>
                \A s \in Runs \ {b} : is_cancelled'[s] = is_cancelled[s]
      ]_vars

\* C39: once stop() has set the shutdown flag, the accept loop never ends with
\* an exception that start() does not catch, it leaves its loop, and stop()
\* returns; this also holds with a connection that stays open and silent and
\* with no further connection.
C39_ShutdownLiveness ==
    /\ [](acc_pc # "raised")
    /\ (stop_pc = "close") ~> (acc_pc = "done")
    /\ (stop_pc = "close") ~> (stop_pc = "returned")

\* C40: the key under which the tree registers its handler is a value of
\* EventType, and when a collect-only session of the runner has ended with a
\* server listening, send_event has written an event of that very type.
C40_RegisteredKeyIsSentKey ==
    (hook = "exit" /\ enable_orisa /\ collect_only /\ listening) =>
        /\ tests_collected \in EventType
        /\ \E i \in 1..Len(written) : WrittenTypes[i] = tests_collected

====
